---- MODULE Spec2Model ----
(***************************************************************************)
(* Model of the 42-bot aggregation queries: the claim reconciler, the      *)
(* portfolio / PnL / OT leaderboards, the wallet-scoped portfolio and      *)
(* position list, and the offset-paginated fetch loops that feed them.     *)
(*                                                                         *)
(* Strings are sequences of one-character strings so that toLowerCase,     *)
(* template-literal concatenation and numeric parsing are computed, not    *)
(* assumed.  A JavaScript number is kept exactly as a function from a      *)
(* decimal scale d to the integer count of 10^-d units it holds.           *)
(***************************************************************************)
EXTENDS Integers, Sequences, FiniteSets, TLC

(***************************************************************************)
(* Strings, null, parsing                                                  *)
(***************************************************************************)

\* JavaScript null / undefined for a string-valued field.
Null == <<"null">>

Digits == <<"0", "1", "2", "3", "4", "5", "6", "7", "8", "9">>

IsDigit(c) == \E i \in 1..10 : Digits[i] = c

DigitVal(c) == (CHOOSE i \in 1..10 : Digits[i] = c) - 1

RECURSIVE ParseDigits(_, _)
ParseDigits(s, acc) ==
    IF s = <<>> \/ ~IsDigit(Head(s)) THEN acc
    ELSE ParseDigits(Tail(s), acc * 10 + DigitVal(Head(s)))

\* A decimal integer literal with an optional leading minus sign.
ParseSigned(s) ==
    IF s # <<>> /\ Head(s) = "-" THEN 0 - ParseDigits(Tail(s), 0)
    ELSE ParseDigits(s, 0)

\* parseFloat(s), Number(s) and BigInt(s) on the integer literals the query
\* service returns.
ParseFloat(s) == ParseSigned(s)

NumberOf(s) == ParseSigned(s)

BigIntOf(s) == ParseSigned(s)

\* s || "0": null, undefined and the empty string are falsy.
OrZero(s) == IF s = Null \/ s = <<>> THEN <<"0">> ELSE s

Abs(x) == IF x < 0 THEN 0 - x ELSE x

\* a & b on non-negative integers.
RECURSIVE BitAnd(_, _)
BitAnd(a, b) ==
    IF a = 0 \/ b = 0 THEN 0
    ELSE (a % 2) * (b % 2) + 2 * BitAnd(a \div 2, b \div 2)

LowerOf(c) ==
    CASE c = "A" -> "a"
      [] c = "B" -> "b"
      [] c = "C" -> "c"
      [] c = "D" -> "d"
      [] c = "E" -> "e"
      [] c = "F" -> "f"
      [] OTHER -> c

\* String.prototype.toLowerCase
ToLowerCase(s) == [i \in 1..Len(s) |-> LowerOf(s[i])]

(***************************************************************************)
(* Numbers                                                                 *)
(***************************************************************************)

\* Decimal places of the position tokens and of the settlement currency.
TOKEN_DECIMALS == 18

USDC_DECIMALS == 6

Scales == {0, USDC_DECIMALS, TOKEN_DECIMALS}

\* The number n of whole units.
Num(n) == [d \in Scales |-> IF d = 0 THEN n ELSE 0]

NumAdd(x, y) == [d \in Scales |-> x[d] + y[d]]

\* k * x for a whole number k.
NumScale(k, x) == [d \in Scales |-> k * x[d]]

\* Number(formatUnits(wei, decimals)): wei units of 10^-decimals.
FormatUnits(wei, decimals) == [d \in Scales |-> IF d = decimals THEN wei ELSE 0]

\* Map.get(key) || zero
GetOr(map, key, zero) == IF key \in DOMAIN map THEN map[key] ELSE zero

\* Map.set(key, value)
MapSet(map, key, value) ==
    [k \in DOMAIN map \cup {key} |-> IF k = key THEN value ELSE map[k]]

EmptyMap == [k \in {} |-> 0]

(***************************************************************************)
(* Claim reconciler                                                        *)
(***************************************************************************)

\* A key built without the separators.
buildClaimKeyUnseparated(user, market, tokenId) == user \o market \o tokenId

\* `${user}-${market}-${tokenId}`
buildClaimKey(user, market, tokenId) ==
    user \o <<"-">> \o market \o <<"-">> \o tokenId

\* A reconciler that keeps only the latest claim of a key.
ClaimsEntryOverwrite(claims, entry) ==
    MapSet(claims,
           buildClaimKey(entry.user_address, entry.market_address, entry.token_id),
           BigIntOf(entry.quantity))

\* One iteration of processClaims' loop:
\* claims[key] = (claims?.[key] || 0n) + BigInt(quantity)
ClaimsEntry(claims, entry) ==
    LET key == buildClaimKey(entry.user_address, entry.market_address,
                             entry.token_id)
        claimWei == GetOr(claims, key, 0)
    IN  MapSet(claims, key, claimWei + BigIntOf(entry.quantity))

RECURSIVE processClaims(_, _)
processClaims(claims, entries) ==
    IF entries = <<>> THEN claims
    ELSE processClaims(ClaimsEntry(claims, Head(entries)), Tail(entries))

(***************************************************************************)
(* Reading a ledger entry's nested question and outcome                    *)
(***************************************************************************)

\* question.question_resolves?.[0]?.answer != null
IsResolved(entry) ==
    /\ Len(entry.question.question_resolves) > 0
    /\ entry.question.question_resolves[1].answer # Null

\* (Number(token_id) & Number(question_resolves[0].answer)) !== 0
IsWinningToken(entry) ==
    BitAnd(NumberOf(entry.token_id),
           NumberOf(entry.question.question_resolves[1].answer)) # 0

\* entry.outcome?.outcome_stats[0].<field> raises a TypeError when the
\* outcome exists and its outcome_stats list is empty.
StatThrows(entry) ==
    ~entry.outcome.null /\ entry.outcome.outcome_stats = <<>>

\* entry.outcome?.outcome_stats[0].<field>, when it does not raise.
StatField(entry, field) ==
    IF entry.outcome.null THEN Null ELSE entry.outcome.outcome_stats[1][field]

\* entry.outcome?.outcome_stats[0]?.<field>
StatFieldSafe(entry, field) ==
    IF entry.outcome.null \/ entry.outcome.outcome_stats = <<>> THEN Null
    ELSE entry.outcome.outcome_stats[1][field]

(***************************************************************************)
(* Portfolio leaderboard: processBatch                                     *)
(***************************************************************************)

ZERO_PORTFOLIO == Num(0)

\* remainingWei = -BigInt(delta_quantity) - (claims?.[key] || 0n)
PortfolioRemainingWei(entry, claims) ==
    LET key == buildClaimKey(entry.user_address, entry.market_address,
                             entry.token_id)
        fullClaimWei == 0 - BigIntOf(entry.delta_quantity)
        claimedWei == GetOr(claims, key, 0)
    IN  fullClaimWei - claimedWei

\* payoutPerOt * Number(formatUnits(remainingWei, 18))
PortfolioClaimValue(entry, remainingWei) ==
    LET payoutPerOt == ParseFloat(OrZero(StatField(entry, "payout_hmr")))
        remaining == FormatUnits(remainingWei, TOKEN_DECIMALS)
    IN  NumScale(payoutPerOt, remaining)

\* A valuation that marks the last delta instead of the held quantity.
PortfolioMarkValueOfDelta(entry) ==
    LET price == ParseFloat(OrZero(StatField(entry, "marginal_price_hmr")))
        quantity == 0 - ParseFloat(OrZero(entry.delta_quantity))
    IN  Num(price * quantity)

\* price * quantity of an unresolved position
PortfolioMarkValue(entry) ==
    LET price == ParseFloat(OrZero(StatField(entry, "marginal_price_hmr")))
        quantity == ParseFloat(OrZero(entry.current_quantity_hmr))
    IN  Num(price * quantity)

\* One iteration of processBatch's loop: [threw, map].
PortfolioEntry(userToStats, entry, claims) ==
    LET user_address == entry.user_address
        portfolio == GetOr(userToStats, user_address, ZERO_PORTFOLIO)
        same == [threw |-> FALSE, map |-> userToStats]
        thrown == [threw |-> TRUE, map |-> userToStats]
        add(value) == [threw |-> FALSE,
                       map |-> MapSet(userToStats, user_address,
                                      NumAdd(portfolio, value))]
    IN  IF IsResolved(entry)
        THEN IF IsWinningToken(entry)
             THEN LET remainingWei == PortfolioRemainingWei(entry, claims)
                  IN  IF remainingWei > 0
                      THEN IF StatThrows(entry) THEN thrown
                           ELSE add(PortfolioClaimValue(entry, remainingWei))
                      ELSE same
             ELSE same
        ELSE IF StatThrows(entry) THEN thrown
             ELSE add(PortfolioMarkValue(entry))

\* processBatch(leaderboard, entries, claims); a raised TypeError ends it.
RECURSIVE PortfolioProcessBatch(_, _, _)
PortfolioProcessBatch(userToStats, entries, claims) ==
    IF entries = <<>> THEN [threw |-> FALSE, map |-> userToStats]
    ELSE LET r == PortfolioEntry(userToStats, Head(entries), claims)
         IN  IF r.threw THEN r
             ELSE PortfolioProcessBatch(r.map, Tail(entries), claims)

\* A ledger loop that leaves the entries to processBatch.
PortfolioSkipUsers(userToStats, entries) == userToStats

\* if (!userToStats.has(user)) userToStats.set(user, ZERO_PORTFOLIO), per entry.
RECURSIVE PortfolioEnsureUsers(_, _)
PortfolioEnsureUsers(userToStats, entries) ==
    IF entries = <<>> THEN userToStats
    ELSE LET u == Head(entries).user_address
         IN  PortfolioEnsureUsers(
                 IF u \in DOMAIN userToStats THEN userToStats
                 ELSE MapSet(userToStats, u, ZERO_PORTFOLIO),
                 Tail(entries))

\* The body of buildPortfolioLeaderboard's ledger loop for one page.
PortfolioFoldPage(userToStats, entries, claims) ==
    PortfolioProcessBatch(PortfolioEnsureUsers(userToStats, entries), entries, claims)

(***************************************************************************)
(* PnL and OT leaderboards: processBatch                                   *)
(***************************************************************************)

\* getOrCreate(map, key, () => new Map()): the value under key, a fresh
\* default when the key is absent (the caller stores it back).
getOrCreate(map, key, defaultValue) == GetOr(map, key, defaultValue)

ZERO_PNL == 0

EmptyPnlLeaderboard ==
    [userToStats |-> EmptyMap,
     userToMarketToStats |-> EmptyMap,
     userToMarketToTokenToStats |-> EmptyMap]

\* A token-level store that accumulates as the OT leaderboard does.
PnlTokenStoreAccumulate(tokenToStats, token_id, pnl) ==
    MapSet(tokenToStats, token_id, GetOr(tokenToStats, token_id, ZERO_PNL) + pnl)

\* The token-level store of the PnL leaderboard: tokenToStats.set(token_id, pnl)
PnlTokenStore(tokenToStats, token_id, pnl) == MapSet(tokenToStats, token_id, pnl)

\* One iteration of the PnL processBatch loop.
PnlEntry(leaderboard, entry) ==
    LET user_address == entry.user_address
        market_address == entry.market_address
        pnl == ParseFloat(entry.realized_pnl_hmr)
        currentUserPnl == GetOr(leaderboard.userToStats, user_address, ZERO_PNL)
        marketToStats == getOrCreate(leaderboard.userToMarketToStats,
                                     user_address, EmptyMap)
        currentMarketPnl == GetOr(marketToStats, market_address, ZERO_PNL)
        marketToToken == getOrCreate(leaderboard.userToMarketToTokenToStats,
                                     user_address, EmptyMap)
        tokenToStats == getOrCreate(marketToToken, market_address, EmptyMap)
    IN  [userToStats |->
             MapSet(leaderboard.userToStats, user_address, currentUserPnl + pnl),
         userToMarketToStats |->
             MapSet(leaderboard.userToMarketToStats, user_address,
                    MapSet(marketToStats, market_address, currentMarketPnl + pnl)),
         userToMarketToTokenToStats |->
             MapSet(leaderboard.userToMarketToTokenToStats, user_address,
                    MapSet(marketToToken, market_address,
                           PnlTokenStore(tokenToStats, entry.token_id, pnl)))]

RECURSIVE PnlProcessBatch(_, _)
PnlProcessBatch(leaderboard, entries) ==
    IF entries = <<>> THEN leaderboard
    ELSE PnlProcessBatch(PnlEntry(leaderboard, Head(entries)), Tail(entries))

ZERO_CUM_VOL_QTY == <<0, 0>>

EmptyOTLeaderboard ==
    [userToStats |-> EmptyMap,
     userToMarketToStats |-> EmptyMap,
     userToMarketToTokenToStats |-> EmptyMap]

\* [v + volume, q + quantity]
CumAdd(pair, volume, quantity) == <<pair[1] + volume, pair[2] + quantity>>

\* A per-user update with volume and quantity exchanged.
OTUserStoreSwapped(userToStats, user_address, volume, quantity) ==
    MapSet(userToStats, user_address,
           CumAdd(GetOr(userToStats, user_address, ZERO_CUM_VOL_QTY),
                  quantity, volume))

\* The per-user update of the OT leaderboard.
OTUserStore(userToStats, user_address, volume, quantity) ==
    MapSet(userToStats, user_address,
           CumAdd(GetOr(userToStats, user_address, ZERO_CUM_VOL_QTY),
                  volume, quantity))

\* The token-level update of the OT leaderboard.
OTTokenStore(tokenToStats, token_id, volume, quantity) ==
    MapSet(tokenToStats, token_id,
           CumAdd(GetOr(tokenToStats, token_id, ZERO_CUM_VOL_QTY),
                  volume, quantity))

\* One iteration of the OT processBatch loop.
OTEntry(leaderboard, entry) ==
    LET user_address == entry.user_address
        market_address == entry.market_address
        quantity == Abs(ParseFloat(entry.delta_quantity_hmr))
        volume == Abs(ParseFloat(entry.delta_collateral_hmr))
        marketToStats == getOrCreate(leaderboard.userToMarketToStats,
                                     user_address, EmptyMap)
        marketToToken == getOrCreate(leaderboard.userToMarketToTokenToStats,
                                     user_address, EmptyMap)
        tokenToStats == getOrCreate(marketToToken, market_address, EmptyMap)
    IN  [userToStats |->
             OTUserStore(leaderboard.userToStats, user_address, volume, quantity),
         userToMarketToStats |->
             MapSet(leaderboard.userToMarketToStats, user_address,
                    MapSet(marketToStats, market_address,
                           CumAdd(GetOr(marketToStats, market_address,
                                        ZERO_CUM_VOL_QTY),
                                  volume, quantity))),
         userToMarketToTokenToStats |->
             MapSet(leaderboard.userToMarketToTokenToStats, user_address,
                    MapSet(marketToToken, market_address,
                           OTTokenStore(tokenToStats, entry.token_id,
                                        volume, quantity)))]

RECURSIVE OTProcessBatch(_, _)
OTProcessBatch(leaderboard, entries) ==
    IF entries = <<>> THEN leaderboard
    ELSE OTProcessBatch(OTEntry(leaderboard, Head(entries)), Tail(entries))

(***************************************************************************)
(* Wallet-scoped folds                                                     *)
(***************************************************************************)

\* The claimed total getWalletPortfolio reads for a position of the wallet:
\* claims?.[buildClaimKey(walletAddress, market_address, token_id)] || 0n
WalletClaimedWei(claims, walletAddress, market_address, token_id) ==
    GetOr(claims, buildClaimKey(walletAddress, market_address, token_id), 0)

\* remainingWei = -BigInt(delta_quantity) - claimedWei
WalletRemainingWei(entry, walletAddress, claims) ==
    LET fullClaimWei == 0 - BigIntOf(entry.delta_quantity)
        claimedWei == WalletClaimedWei(claims, walletAddress,
                                       entry.market_address, entry.token_id)
    IN  fullClaimWei - claimedWei

\* payoutPerOt * Number(formatUnits(remainingWei, 18))
WalletClaimValue(entry, remainingWei) ==
    LET payoutPerOt == ParseFloat(OrZero(StatField(entry, "payout_hmr")))
        remaining == FormatUnits(remainingWei, TOKEN_DECIMALS)
    IN  NumScale(payoutPerOt, remaining)

\* price * quantity of an unresolved position
WalletMarkValue(entry) ==
    LET price == ParseFloat(OrZero(StatField(entry, "marginal_price_hmr")))
        quantity == ParseFloat(OrZero(entry.current_quantity_hmr))
    IN  Num(price * quantity)

\* One iteration of getWalletPortfolio's position loop: [threw, portfolio].
WalletEntry(portfolio, entry, walletAddress, claims) ==
    LET same == [threw |-> FALSE, portfolio |-> portfolio]
        thrown == [threw |-> TRUE, portfolio |-> portfolio]
        add(value) == [threw |-> FALSE, portfolio |-> NumAdd(portfolio, value)]
    IN  IF IsResolved(entry)
        THEN IF IsWinningToken(entry)
             THEN LET remainingWei ==
                          WalletRemainingWei(entry, walletAddress, claims)
                  IN  IF remainingWei > 0
                      THEN IF StatThrows(entry) THEN thrown
                           ELSE add(WalletClaimValue(entry, remainingWei))
                      ELSE same
             ELSE same
        ELSE IF StatThrows(entry) THEN thrown
             ELSE add(WalletMarkValue(entry))

RECURSIVE WalletFoldPage(_, _, _, _)
WalletFoldPage(portfolio, entries, walletAddress, claims) ==
    IF entries = <<>> THEN [threw |-> FALSE, portfolio |-> portfolio]
    ELSE LET r == WalletEntry(portfolio, Head(entries), walletAddress, claims)
         IN  IF r.threw THEN r
             ELSE WalletFoldPage(r.portfolio, Tail(entries), walletAddress, claims)

\* The value field of a record of getWalletPositions: price * quantity.
PositionRecordValue(entry, price, quantity) == price * quantity

\* A loop that reports every position, held or not.
PositionsEntryUnfiltered(positions, entry) ==
    Append(positions,
           [market_address |-> entry.market_address,
            token_id |-> entry.token_id,
            quantity |-> ParseFloat(OrZero(entry.current_quantity_hmr))])

\* One iteration of getWalletPositions' loop: the list with the entry's
\* record appended when its quantity is non-zero.
PositionsEntry(positions, entry) ==
    LET quantity == ParseFloat(OrZero(entry.current_quantity_hmr))
    IN  IF quantity # 0
        THEN LET price ==
                     ParseFloat(OrZero(StatFieldSafe(entry, "marginal_price_hmr")))
                 isResolved == IsResolved(entry)
                 isWinning == isResolved /\ IsWinningToken(entry)
             IN  Append(positions,
                        [market_address |-> entry.market_address,
                         token_id |-> entry.token_id,
                         quantity |-> quantity,
                         current_price |-> price,
                         value |-> PositionRecordValue(entry, price, quantity),
                         realized_pnl |->
                             ParseFloat(OrZero(entry.realized_pnl_hmr)),
                         block_timestamp |-> entry.block_timestamp,
                         event_type |-> entry.event_type,
                         is_resolved |-> isResolved,
                         is_winning |-> isWinning,
                         payout_hmr |-> StatFieldSafe(entry, "payout_hmr")])
        ELSE positions

RECURSIVE PositionsFoldPage(_, _)
PositionsFoldPage(positions, entries) ==
    IF entries = <<>> THEN positions
    ELSE PositionsFoldPage(PositionsEntry(positions, Head(entries)), Tail(entries))

(***************************************************************************)
(* Market liquidity                                                        *)
(***************************************************************************)

\* calculateMarketLiquidity's loop over a page:
\* totalLiquidity += parseFloat(entry.delta_collateral_hmr || "0")
RECURSIVE LiquidityFoldPage(_, _)
LiquidityFoldPage(totalLiquidity, entries) ==
    IF entries = <<>> THEN totalLiquidity
    ELSE LiquidityFoldPage(
             totalLiquidity
                 + ParseFloat(OrZero(Head(entries).delta_collateral_hmr)),
             Tail(entries))

\* calculateTokenSupply's loop over a page:
\* totalSupply += parseFloat(entry.current_quantity_hmr || "0")
RECURSIVE SupplyFoldPage(_, _)
SupplyFoldPage(totalSupply, entries) ==
    IF entries = <<>> THEN totalSupply
    ELSE SupplyFoldPage(
             totalSupply + ParseFloat(OrZero(Head(entries).current_quantity_hmr)),
             Tail(entries))

\* The index of the market's record in the marketMap, 0 when it has none.
MarketIndex(marketMap, market) ==
    IF \E k \in 1..Len(marketMap) : marketMap[k].market_address = market
    THEN CHOOSE k \in 1..Len(marketMap) : marketMap[k].market_address = market
    ELSE 0

\* A loop over the page that skips nothing.
NextEntry(entries, i) == i

\* `if (isResolved) continue`: the first entry from index i on whose market
\* has no answer, Len(entries) + 1 when there is none.
RECURSIVE NextUnresolved(_, _)
NextUnresolved(entries, i) ==
    IF i > Len(entries) THEN i
    ELSE IF IsResolved(entries[i]) THEN NextUnresolved(entries, i + 1)
    ELSE i

\* payoff = totalSupply > 0 && price > 0
\*              ? (total_liquidity / totalSupply) / price : 0, as a fraction.
Payoff(totalLiquidity, totalSupply, price) ==
    IF totalSupply > 0 /\ price > 0
    THEN [numerator |-> totalLiquidity, denominator |-> totalSupply * price]
    ELSE [numerator |-> 0, denominator |-> 1]

\* market.outcome_tokens.push({...}) for the entry, its supply known.
PushOutcomeToken(marketMap, entry, totalSupply) ==
    LET k == MarketIndex(marketMap, entry.market_address)
        price == ParseFloat(OrZero(StatFieldSafe(entry, "marginal_price_hmr")))
    IN  [marketMap EXCEPT
            ![k].outcome_tokens =
                Append(@, [token_id |-> entry.token_id,
                           price |-> price,
                           total_supply |-> totalSupply,
                           payoff |-> Payoff(marketMap[k].total_liquidity,
                                             totalSupply, price),
                           market_address |-> entry.market_address])]

(***************************************************************************)
(* Rows of the query service                                               *)
(***************************************************************************)

Stat(price, payout) == [marginal_price_hmr |-> price, payout_hmr |-> payout]

\* entry.outcome with its outcome_stats(limit: 1) list.
Outcome(stats) == [null |-> FALSE, outcome_stats |-> stats]

\* entry.outcome === null
NoOutcome == [null |-> TRUE, outcome_stats |-> <<>>]

\* entry.question with its question_resolves(limit: 1) list.
Question(resolves) == [question_resolves |-> resolves]

Resolve(answer) == [answer |-> answer]

\* A row of the ledger view (GetLastPosition, GetLastPositionPnl, GetTrades).
LedgerEntry(id, u, m, t, ts, q, d, pnl, dq, dc, outcome, question) ==
    [id |-> id, user_address |-> u, market_address |-> m, token_id |-> t,
     block_timestamp |-> ts, event_type |-> <<"t">>,
     current_quantity_hmr |-> q, delta_quantity |-> d,
     realized_pnl_hmr |-> pnl,
     delta_quantity_hmr |-> dq, delta_collateral_hmr |-> dc,
     outcome |-> outcome, question |-> question]

\* A row of market_claim.
ClaimEntry(u, m, t, quantity) ==
    [user_address |-> u, market_address |-> m, token_id |-> t,
     quantity |-> quantity]

GroupOf(entry) == <<entry.user_address, entry.market_address, entry.token_id>>

\* The groups of the entries of a page.
GroupsOf(entries) == {GroupOf(entries[i]) : i \in 1..Len(entries)}

\* Some group occurs twice in the page.
HasRepeat(entries) ==
    \E i, j \in 1..Len(entries) : i # j /\ GroupOf(entries[i]) = GroupOf(entries[j])

RECURSIVE SumOver(_, _)
\* The sum of f[x] over the finite set S \subseteq DOMAIN f.
SumOver(f, S) ==
    IF S = {} THEN 0
    ELSE LET x == CHOOSE y \in S : TRUE
         IN  f[x] + SumOver(f, S \ {x})

(***************************************************************************)
(* State                                                                   *)
(***************************************************************************)

VARIABLES
    op,             \* the operation in progress
    walletAddress,  \* its walletAddress argument (wallet-scoped operations)
    marketAddress,  \* its marketAddress argument (calculateMarketLiquidity)
    pageSize,       \* its page size
    ledger,         \* the ledger table of the query service
    market_claim,   \* the market_claim table of the query service
    pc,             \* where the operation stands
    offset,         \* the offset of the next page request
    claims,         \* the MarketClaims map
    acc,            \* the leaderboard / portfolio / position list being built
    lastPage,       \* history: the last ledger page folded
    prevAcc,        \* history: acc before that page
    seenPrev,       \* history: the groups folded before that page
    dup,            \* history: some group has been folded more than once
    claimBag,       \* history: how often each claim row has been folded
    foldedIds,      \* history: the ids of the ledger rows folded, in order
    requests,       \* history: [loop, offset, rows] of every page request
    nfold,          \* history: the number of rows folded
    cashReads,      \* history: [batch, address, status, result] of every
                    \* balanceOf read, in order
    result,         \* the settlement of the promise the operation returned
    outstanding,    \* the page requests issued and not yet answered
    run,            \* the number of the call of the operation: 1 or 2
    firstRun        \* history: the result and balance reads of call 1

\* The server's files and the requests it is handling.
VARIABLES
    knownMarketsFile,    \* known-markets.json: Missing, or its markets list
    indexed,             \* the market addresses with a ledger row
    checks,              \* the checkForNewMarkets runs in flight
    notifications,       \* history: the market addresses of every Slack
                         \* notification delivered, in order
    trackedWalletsFile,  \* tracked-wallets.json
    handlers,            \* the tracked-wallets requests in flight
    responses,           \* history: [kind, address, status] of every
                         \* tracked-wallets response, in order
    outcomes,            \* history: how every checkForNewMarkets call settled
    env,                 \* process.env: SLACK_WEBHOOK_URL and CRON_SECRET
    intervalId,          \* the intervalId of each monitor module
    timers,              \* the interval timers created: [monitor, active]
    invocations,         \* history: the start and stop calls and the checks
                         \* called by start and by timers
    isFirstRun,          \* the isFirstRun flag of the wallet monitor
    walletChecks,        \* the checkWalletAndSendReport calls in flight
    walletLog,           \* history: the first-run decisions, test messages
                         \* and resets of the wallet monitor, in order
    cronLog,             \* history: the requests of the cron handler, what
                         \* was run for them and the answers, in order
    triples,             \* two (user, market, token) triples given to
                         \* buildClaimKey
    keyed                \* the keys built for them and the claims map filled
                         \* with one claim of each

queryVars == <<op, walletAddress, marketAddress, pageSize, ledger, market_claim, pc, offset,
               claims, acc, lastPage, prevAcc, seenPrev, dup, claimBag, foldedIds,
               requests, nfold, cashReads, result, outstanding, run, firstRun>>

callVars == <<run, firstRun>>

monitorVars == <<knownMarketsFile, indexed, checks, notifications, outcomes>>

trackedVars == <<trackedWalletsFile, handlers, responses>>

timerVars == <<intervalId, timers, invocations>>

walletVars == <<isFirstRun, walletChecks, walletLog, cronLog>>

\* The server state outside the market check and the tracked wallets.
keyVars == <<triples, keyed>>

otherVars == <<env, timerVars, walletVars, keyVars>>

serverVars == <<monitorVars, trackedVars, otherVars>>

vars == <<queryVars, serverVars>>

dbVars == <<ledger, market_claim>>

argVars == <<op, walletAddress, marketAddress, pageSize>>

ledgerHistory == <<lastPage, prevAcc, seenPrev, dup, foldedIds>>

\* The promise of an operation: pending, resolved with a value, or rejected
\* with an error.
Pending == [status |-> "pending"]

Resolved(value) == [status |-> "resolved", value |-> value]

Rejected(error) == [status |-> "rejected", error |-> error]

\* The error raised by the i-th page request of the operation.
TransportError(i) == [kind |-> "transport", request |-> i]

\* The TypeError raised by reading a field of outcome_stats[0] when the list
\* is empty.
TypeError == [kind |-> "TypeError", request |-> 0]

\* The rows entry of the request history for a request that failed.
Failed == 0 - 1

\* A file that does not exist.
Missing == <<"missing">>

\* The two callers of checkForNewMarkets: the 30-minute timer and
\* POST /api/markets/check.
Runs == {"timer", "http"}

\* A run that is not in progress.
IdleCheck ==
    [pc |-> "idle", knownMarkets |-> <<>>, allMarkets |-> <<>>, newMarkets |-> <<>>,
     notified |-> FALSE]

\* The request handlers the server may be running at the same time.
HandlerIds == {1, 2}

\* A handler with no request.
IdleHandler == [pc |-> "idle", kind |-> "none", walletAddress |-> <<>>, wallets |-> <<>>]

\* An environment variable that is not set.
Unset == <<"undefined">>

\* A webhook URL that starts with https://hooks.slack.com/services/, and one
\* that does not.
SlackUrl == <<"h">>

OtherUrl == <<"o">>

\* The value of CRON_SECRET.
Secret == <<"s">>

\* The two monitor modules.
Monitors == {"market", "wallet"}

\* intervalId = null; a timer is named by its position in timers, from 1.
NoTimer == 0

\* The callers of checkWalletAndSendReport: the 5-minute timer (and the
\* start of the monitor) and the cron handler.
Callers == {"timer", "cron"}

\* The headers of a request that carries neither x-vercel-cron nor
\* Authorization; the timer has no request.
NoRequest == [cron |-> Unset, authorization |-> Unset]

\* A wallet check that is not in progress.
IdleWalletCheck == [pc |-> "idle", request |-> NoRequest]

\* No market check in flight, no known-markets file.
MonitorIdle ==
    /\ knownMarketsFile = Missing
    /\ indexed = {}
    /\ checks = [r \in Runs |-> IdleCheck]
    /\ notifications = <<>>
    /\ outcomes = <<>>

\* No tracked-wallets request in flight, an empty list stored.
TrackedIdle ==
    /\ trackedWalletsFile = <<>>
    /\ handlers = [h \in HandlerIds |-> IdleHandler]
    /\ responses = <<>>

\* The monitor modules as loaded: `let intervalId = null`.
TimersIdle ==
    /\ intervalId = [m \in Monitors |-> NoTimer]
    /\ timers = <<>>
    /\ invocations = <<>>

\* The wallet monitor as loaded: `let isFirstRun = true`.
WalletIdle ==
    /\ isFirstRun = TRUE
    /\ walletChecks = [c \in Callers |-> IdleWalletCheck]
    /\ walletLog = <<>>
    /\ cronLog = <<>>

\* No key built.
NoKeys == [built |-> FALSE, keys |-> <<>>, claims |-> EmptyMap]

KeysIdle ==
    /\ triples = <<>>
    /\ keyed = NoKeys

\* The server with no file written and no request in flight.
ServerIdle ==
    /\ MonitorIdle
    /\ TrackedIdle
    /\ TimersIdle
    /\ WalletIdle
    /\ env = [SLACK_WEBHOOK_URL |-> SlackUrl, CRON_SECRET |-> Unset]
    /\ KeysIdle

\* No call has returned yet.
NoRun == [result |-> Pending, cashReads |-> <<>>]

\* The first call of the operation is in progress.
FirstCall == run = 1 /\ firstRun = NoRun

\* A page request in flight.
PageRequest(loop, off) == [loop |-> loop, offset |-> off]

\* A loop that asks for the following page along with the one it awaits.
IssueWithPrefetch(loop, off, limit) ==
    <<PageRequest(loop, off), PageRequest(loop, off + limit)>>

\* await GQL_CLIENT.request(query, { limit, offset }): the one request the
\* loop issues and waits for.
Issue(loop, off, limit) == <<PageRequest(loop, off)>>

\* The request issued by the code that runs on to position p: the next page
\* of the loop at p, nothing once the loops are over.
NextIssue(p, off, a, limit) ==
    CASE p \in {"claims", "positions", "markets"} -> Issue(p, off, limit)
      [] p \in {"liquidity", "supply"} -> Issue(p, a.call.offset, limit)
      [] OTHER -> <<>>

\* The request being answered is the one awaited.
Awaited(loop, off) ==
    outstanding # <<>> /\ Head(outstanding) = PageRequest(loop, off)

\* The answered request leaves, the request of the next await enters.
IssueNext ==
    outstanding' = Tail(outstanding) \o NextIssue(pc', offset', acc', pageSize)

\* The operations with a claims loop before the ledger loop.
ClaimOps == {"portfolio", "walletPortfolio"}

\* The operations whose ledger view is one latest row per group.
LatestOps == {"portfolio", "profit", "walletPortfolio", "walletPositions"}

Ops == LatestOps \cup {"ot"}

\* The accumulator an operation starts from.
EmptyAcc(o) ==
    CASE o = "portfolio" -> [userToStats |-> EmptyMap]
      [] o = "profit" -> EmptyPnlLeaderboard
      [] o = "ot" -> EmptyOTLeaderboard
      [] o = "walletPortfolio" -> [portfolio |-> Num(0)]
      [] o = "walletPositions" -> [positions |-> <<>>]
      [] o = "liquidity" -> [totalLiquidity |-> 0]
      [] o = "metrics" ->
             [marketMap |-> <<>>, page |-> <<>>, i |-> 0,
              call |-> [offset |-> 0, total |-> 0]]

\* Folding one ledger page into the accumulator of operation o: [threw, acc].
FoldEntries(o, a, entries, wallet, cl) ==
    CASE o = "portfolio" ->
             LET r == PortfolioFoldPage(a.userToStats, entries, cl)
             IN  [threw |-> r.threw, acc |-> [userToStats |-> r.map]]
      [] o = "profit" -> [threw |-> FALSE, acc |-> PnlProcessBatch(a, entries)]
      [] o = "ot" -> [threw |-> FALSE, acc |-> OTProcessBatch(a, entries)]
      [] o = "walletPortfolio" ->
             LET r == WalletFoldPage(a.portfolio, entries, wallet, cl)
             IN  [threw |-> r.threw, acc |-> [portfolio |-> r.portfolio]]
      [] o = "walletPositions" ->
             [threw |-> FALSE,
              acc |-> [positions |-> PositionsFoldPage(a.positions, entries)]]
      [] o = "liquidity" ->
             [threw |-> FALSE,
              acc |-> [totalLiquidity |->
                           LiquidityFoldPage(a.totalLiquidity, entries)]]

RECURSIVE BagAddAll(_, _)
BagAddAll(bag, entries) ==
    IF entries = <<>> THEN bag
    ELSE BagAddAll(MapSet(bag, Head(entries), GetOr(bag, Head(entries), 0) + 1),
                   Tail(entries))

\* processClaims on a page of the claims loop, with its history.
FoldClaimsPage(entries) ==
    /\ claims' = processClaims(claims, entries)
    /\ claimBag' = BagAddAll(claimBag, entries)
    /\ nfold' = nfold + Len(entries)

\* The ledger loop's body on a page, with its history; threw tells whether
\* the fold raised.
FoldLedgerPage(entries, threw) ==
    LET r == FoldEntries(op, acc, entries, walletAddress, claims)
        seen == seenPrev \cup GroupsOf(lastPage)
    IN  /\ threw = r.threw
        /\ acc' = r.acc
        /\ prevAcc' = acc
        /\ lastPage' = entries
        /\ seenPrev' = seen
        /\ dup' = (dup \/ HasRepeat(entries) \/ GroupsOf(entries) \cap seen # {})
        /\ foldedIds' = foldedIds \o [i \in 1..Len(entries) |-> entries[i].id]
        /\ nfold' = nfold + Len(entries)

(***************************************************************************)
(* Identifiers and row universes                                           *)
(***************************************************************************)

UserA == <<"a">>

UserB == <<"b">>

\* The same address as UserA in another letter case.
UserAUpper == <<"A">>

MarketC == <<"c">>

MarketD == <<"d">>

Token1 == <<"1">>

Token2 == <<"2">>

NoWallet == <<>>

NoMarket == <<>>

Users == {UserA, UserB}

Markets == {MarketC, MarketD}

Tokens == {Token1, Token2}

Unresolved == Question(<<>>)

\* The nested question / outcome shapes a ledger row is delivered with:
\* [q, d, outcome, question].
Shape(q, d, outcome, question) ==
    [q |-> q, d |-> d, outcome |-> outcome, question |-> question]

Priced == Outcome(<<Stat(<<"3">>, <<"2">>)>>)

Shapes ==
    {Shape(<<"2">>, <<"-", "3">>, Priced, Unresolved),
     Shape(<<"0">>, <<"0">>, Priced, Question(<<Resolve(Null)>>)),
     Shape(<<"2">>, <<"0">>, NoOutcome, Unresolved),
     Shape(<<"2">>, <<"0">>, Outcome(<<>>), Unresolved),
     Shape(Null, <<"0">>, Outcome(<<Stat(Null, Null)>>), Unresolved),
     Shape(<<"2">>, <<"-", "3">>, Priced, Question(<<Resolve(<<"1">>)>>)),
     Shape(<<"2">>, <<"-", "3">>, Priced, Question(<<Resolve(<<"2">>)>>)),
     Shape(<<"0">>, <<"1">>, Priced, Question(<<Resolve(<<"3">>)>>)),
     Shape(<<"0">>, <<"-", "3">>, Outcome(<<>>), Question(<<Resolve(<<"1">>)>>)),
     Shape(<<"0">>, <<"-", "3">>, NoOutcome, Question(<<Resolve(<<"1">>)>>))}

PositionRow(u, m, t, sh) ==
    LedgerEntry(0, u, m, t, <<"7">>, sh.q, sh.d, <<"1">>, <<"0">>, <<"0">>,
                sh.outcome, sh.question)

\* Ledger rows delivered to the portfolio and wallet folds.
PositionRows ==
    {PositionRow(UserA, MarketC, Token1, sh) : sh \in Shapes}
    \cup {PositionRow(g[1], g[2], g[3], sh) :
            g \in {<<UserA, MarketC, Token2>>, <<UserB, MarketC, Token1>>,
                   <<UserA, MarketD, Token1>>},
            sh \in {Shape(<<"2">>, <<"-", "3">>, Priced, Unresolved),
                    Shape(<<"2">>, <<"-", "3">>, Priced,
                          Question(<<Resolve(<<"1">>)>>))}}

PnlRow(u, m, t, pnl) ==
    LedgerEntry(0, u, m, t, <<"7">>, <<"0">>, <<"0">>, pnl, <<"0">>, <<"0">>,
                NoOutcome, Unresolved)

\* Ledger rows delivered to the PnL fold.
PnlRows ==
    {PnlRow(u, m, t, <<"2">>) : u \in Users, m \in Markets, t \in Tokens}
    \cup {PnlRow(UserA, MarketC, Token1, <<"-", "1">>)}

OTRow(u, m, t, dq, dc) ==
    LedgerEntry(0, u, m, t, <<"7">>, <<"0">>, <<"0">>, <<"0">>, dq, dc,
                NoOutcome, Unresolved)

\* Ledger rows delivered to the OT fold.
OTRows ==
    {OTRow(u, m, t, <<"-", "1">>, <<"3">>) :
        u \in Users, m \in Markets, t \in Tokens}
    \cup {OTRow(UserA, MarketC, Token1, <<"2">>, <<"-", "5">>)}

\* Claim rows delivered to the claims loops.
ClaimRows ==
    {ClaimEntry(UserA, MarketC, Token1, <<"1">>),
     ClaimEntry(UserA, MarketC, Token1, <<"3">>),
     ClaimEntry(UserA, MarketC, Token2, <<"2">>),
     ClaimEntry(UserA, MarketD, Token1, <<"1">>),
     ClaimEntry(UserB, MarketC, Token1, <<"1">>)}

\* Pages of one or two rows.
PagesOf(Rows) ==
    {<<r>> : r \in Rows} \cup {<<r[1], r[2]>> : r \in Rows \X Rows}

RowsFor(o) ==
    CASE o = "profit" -> PnlRows
      [] o = "ot" -> OTRows
      [] OTHER -> PositionRows

\* The number of rows delivered to one run of a fold.
MaxFold == 3

(***************************************************************************)
(* The folds on delivered pages                                            *)
(***************************************************************************)

FoldInit ==
    /\ op \in Ops
    /\ walletAddress \in
           (CASE op = "walletPortfolio" -> {UserA, UserAUpper}
              [] op = "walletPositions" -> {UserA}
              [] OTHER -> {NoWallet})
    /\ marketAddress = NoMarket
    /\ pageSize = 0
    /\ ledger = <<>>
    /\ market_claim = <<>>
    /\ pc = IF op \in ClaimOps THEN "claims" ELSE "positions"
    /\ offset = 0
    /\ claims = EmptyMap
    /\ acc = EmptyAcc(op)
    /\ lastPage = <<>>
    /\ prevAcc = EmptyAcc(op)
    /\ seenPrev = {}
    /\ dup = FALSE
    /\ claimBag = EmptyMap
    /\ foldedIds = <<>>
    /\ requests = <<>>
    /\ nfold = 0
    /\ cashReads = <<>>
    /\ result = Pending
    /\ outstanding = <<>>
    /\ FirstCall
    /\ ServerIdle

\* A claims page is delivered and folded.
DeliverClaims ==
    /\ pc = "claims"
    /\ \E entries \in PagesOf(ClaimRows) :
          /\ nfold + Len(entries) <= MaxFold
          /\ FoldClaimsPage(entries)
    /\ UNCHANGED <<serverVars, callVars, argVars, dbVars, cashReads, pc, offset, acc, ledgerHistory, requests,
                   result, outstanding>>

\* The claims loop ends.
ClaimsDelivered ==
    /\ pc = "claims"
    /\ pc' = "positions"
    /\ UNCHANGED <<serverVars, callVars, argVars, dbVars, cashReads, offset, claims, acc, ledgerHistory,
                   claimBag, requests, nfold, result, outstanding>>

\* A ledger page is delivered and folded.
DeliverLedger ==
    /\ pc = "positions"
    /\ \E entries \in PagesOf(RowsFor(op)) :
          /\ nfold + Len(entries) <= MaxFold
          /\ \E threw \in BOOLEAN :
                /\ FoldLedgerPage(entries, threw)
                /\ pc' = IF threw THEN "rejected" ELSE "positions"
                /\ result' = IF threw THEN Rejected(TypeError) ELSE result
    /\ UNCHANGED <<serverVars, callVars, argVars, dbVars, cashReads, offset, claims, claimBag, requests,
                   outstanding>>

FoldNext == DeliverClaims \/ ClaimsDelivered \/ DeliverLedger

SpecFold == FoldInit /\ [][FoldNext]_vars

(***************************************************************************)
(* Properties of the folds                                                 *)
(***************************************************************************)

AllGroups == Users \X Markets \X Tokens

Indices(entries) == 1..Len(entries)

\* The sum over the rows i \in S of the page of the number V(row).
NumSumRows(entries, S, V(_)) ==
    [d \in Scales |-> SumOver([i \in Indices(entries) |-> V(entries[i])[d]], S)]

\* The sum over the rows i \in S of the page of the integer V(row).
IntSumRows(entries, S, V(_)) ==
    SumOver([i \in Indices(entries) |-> V(entries[i])], S)

RowsOfUser(entries, u) == {i \in Indices(entries) : entries[i].user_address = u}

RowsOfMarket(entries, u, m) ==
    {i \in RowsOfUser(entries, u) : entries[i].market_address = m}

RowsOfGroup(entries, g) == {i \in Indices(entries) : GroupOf(entries[i]) = g}

\* The latest marginal price of the row's outcome, 0 when none is known.
MarginalPrice(entry) ==
    IF entry.outcome.null \/ entry.outcome.outcome_stats = <<>> THEN 0
    ELSE IF entry.outcome.outcome_stats[1].marginal_price_hmr = Null THEN 0
    ELSE ParseSigned(entry.outcome.outcome_stats[1].marginal_price_hmr)

\* The quantity currently held, 0 when none is recorded.
HeldQuantity(entry) ==
    IF entry.current_quantity_hmr = Null THEN 0
    ELSE ParseSigned(entry.current_quantity_hmr)

MarkToMarket(entry) == Num(MarginalPrice(entry) * HeldQuantity(entry))

\* The last page folded holds rows of unresolved markets only.
UnresolvedPage ==
    lastPage # <<>> /\ \A i \in Indices(lastPage) : ~IsResolved(lastPage[i])

\* C5: a position in an unresolved market adds exactly its latest marginal
\* price times its held quantity to the portfolio (so 0 when nothing is
\* held), whatever the claims map and its delta_quantity are: after a page of
\* unresolved rows every portfolio has grown by the sum of price * quantity
\* over its rows of the page.
C5_UnresolvedAddsPriceTimesQuantity ==
    (pc # "rejected" /\ UnresolvedPage) =>
        /\ op = "portfolio" =>
             \A u \in Users :
                GetOr(acc.userToStats, u, Num(0)) =
                    NumAdd(GetOr(prevAcc.userToStats, u, Num(0)),
                           NumSumRows(lastPage, RowsOfUser(lastPage, u),
                                      MarkToMarket))
        /\ op = "walletPortfolio" =>
             acc.portfolio =
                 NumAdd(prevAcc.portfolio,
                        NumSumRows(lastPage, Indices(lastPage), MarkToMarket))

\* An unresolved position with a price, a quantity and a claim under its key
\* has been valued.
C5_Witness ==
    /\ pc # "rejected" /\ UnresolvedPage /\ op = "portfolio"
    /\ \E i \in Indices(lastPage) :
          /\ MarkToMarket(lastPage[i]) # Num(0)
          /\ buildClaimKey(lastPage[i].user_address, lastPage[i].market_address,
                           lastPage[i].token_id) \in DOMAIN claims
    /\ \E i \in Indices(lastPage) : HeldQuantity(lastPage[i]) = 0

\* The sum of the quantities of the claim records of group g folded so far.
ClaimedTotal(bag, g) ==
    SumOver([r \in DOMAIN bag |-> bag[r] * ParseSigned(r.quantity)],
            {r \in DOMAIN bag : GroupOf(r) = g})

\* C7: the claims map holds, for every (user, market, token), the exact sum
\* of the quantities of all claim records folded for it, and nothing else;
\* the sum is over the records as a bag, so neither their order nor their
\* split into pages changes it, and no record replaces another.
C7_ClaimsAreExactSums ==
    /\ \A g \in AllGroups :
          GetOr(claims, buildClaimKey(g[1], g[2], g[3]), 0) =
              ClaimedTotal(claimBag, g)
    /\ DOMAIN claims =
          {buildClaimKey(r.user_address, r.market_address, r.token_id) :
              r \in DOMAIN claimBag}

\* Two different records of one key and a record of another key were folded.
C7_Witness ==
    /\ \E r1, r2 \in DOMAIN claimBag : r1 # r2 /\ GroupOf(r1) = GroupOf(r2)
    /\ Cardinality(DOMAIN claims) >= 2

PnlOf(entry) == ParseSigned(entry.realized_pnl_hmr)

VolumeOf(entry) == Abs(ParseSigned(entry.delta_collateral_hmr))

QuantityOf(entry) == Abs(ParseSigned(entry.delta_quantity_hmr))

\* The per-user-per-market entry, 0 when absent.
MarketPnl(lb, u, m) == GetOr(GetOr(lb.userToMarketToStats, u, EmptyMap), m, 0)

MarketCum(lb, u, m) ==
    GetOr(GetOr(lb.userToMarketToStats, u, EmptyMap), m, <<0, 0>>)

\* The token-level map of a user's market, empty when absent.
TokenMap(lb, u, m) ==
    GetOr(GetOr(lb.userToMarketToTokenToStats, u, EmptyMap), m, EmptyMap)

\* C8: at every moment each user's entry is the sum of that user's per-market
\* entries (PnL; OT volume and OT quantity), and a page adds each of its rows
\* once to the user's entry and once to the user's market entry.
C8_UserIsSumOfMarkets ==
    /\ op = "profit" =>
         /\ DOMAIN acc.userToStats = DOMAIN acc.userToMarketToStats
         /\ \A u \in DOMAIN acc.userToStats :
               acc.userToStats[u] =
                   SumOver(acc.userToMarketToStats[u],
                           DOMAIN acc.userToMarketToStats[u])
         /\ \A u \in Users :
               /\ GetOr(acc.userToStats, u, 0) =
                      GetOr(prevAcc.userToStats, u, 0)
                      + IntSumRows(lastPage, RowsOfUser(lastPage, u), PnlOf)
               /\ \A m \in Markets :
                     MarketPnl(acc, u, m) =
                         MarketPnl(prevAcc, u, m)
                         + IntSumRows(lastPage, RowsOfMarket(lastPage, u, m), PnlOf)
    /\ op = "ot" =>
         /\ DOMAIN acc.userToStats = DOMAIN acc.userToMarketToStats
         /\ \A u \in DOMAIN acc.userToStats : \A k \in 1..2 :
               acc.userToStats[u][k] =
                   SumOver([m \in DOMAIN acc.userToMarketToStats[u] |->
                               acc.userToMarketToStats[u][m][k]],
                           DOMAIN acc.userToMarketToStats[u])
         /\ \A u \in Users :
               /\ GetOr(acc.userToStats, u, <<0, 0>>) =
                      CumAdd(GetOr(prevAcc.userToStats, u, <<0, 0>>),
                             IntSumRows(lastPage, RowsOfUser(lastPage, u), VolumeOf),
                             IntSumRows(lastPage, RowsOfUser(lastPage, u), QuantityOf))
               /\ \A m \in Markets :
                     MarketCum(acc, u, m) =
                         CumAdd(MarketCum(prevAcc, u, m),
                                IntSumRows(lastPage, RowsOfMarket(lastPage, u, m),
                                           VolumeOf),
                                IntSumRows(lastPage, RowsOfMarket(lastPage, u, m),
                                           QuantityOf))

\* An OT leaderboard in which a user traded in two markets and some
\* (user, market, token) was folded twice.
C8_Witness ==
    /\ op = "ot" /\ dup
    /\ \E u \in DOMAIN acc.userToStats :
          Cardinality(DOMAIN acc.userToMarketToStats[u]) = 2

\* The index of the last row of group g in the page.
LastRowOf(entries, g) ==
    CHOOSE i \in RowsOfGroup(entries, g) :
        \A j \in RowsOfGroup(entries, g) : j <= i

\* C9: the PnL leaderboard's token-level entry is the realized PnL of the last
\* row folded for its (user, market, token) and other entries are untouched;
\* the OT leaderboard's token-level entry grows by the absolute volume and
\* quantity of every row folded for it.  So the OT per-market entry is always
\* the sum of its token entries, and the PnL per-market entry is as long as no
\* (user, market, token) has been folded twice.
C9_TokenLevelOverwriteVsAccumulate ==
    /\ op = "profit" =>
         /\ \A g \in GroupsOf(lastPage) :
               /\ g[3] \in DOMAIN TokenMap(acc, g[1], g[2])
               /\ TokenMap(acc, g[1], g[2])[g[3]] =
                      PnlOf(lastPage[LastRowOf(lastPage, g)])
         /\ \A g \in AllGroups \ GroupsOf(lastPage) :
               /\ g[3] \in DOMAIN TokenMap(acc, g[1], g[2])
                      <=> g[3] \in DOMAIN TokenMap(prevAcc, g[1], g[2])
               /\ GetOr(TokenMap(acc, g[1], g[2]), g[3], 0) =
                      GetOr(TokenMap(prevAcc, g[1], g[2]), g[3], 0)
         /\ ~dup =>
               \A u \in Users, m \in Markets :
                  MarketPnl(acc, u, m) =
                      SumOver(TokenMap(acc, u, m), DOMAIN TokenMap(acc, u, m))
    /\ op = "ot" =>
         /\ \A g \in AllGroups :
               GetOr(TokenMap(acc, g[1], g[2]), g[3], <<0, 0>>) =
                   CumAdd(GetOr(TokenMap(prevAcc, g[1], g[2]), g[3], <<0, 0>>),
                          IntSumRows(lastPage, RowsOfGroup(lastPage, g), VolumeOf),
                          IntSumRows(lastPage, RowsOfGroup(lastPage, g), QuantityOf))
         /\ \A u \in Users, m \in Markets : \A k \in 1..2 :
               MarketCum(acc, u, m)[k] =
                   SumOver([t \in DOMAIN TokenMap(acc, u, m) |->
                               TokenMap(acc, u, m)[t][k]],
                           DOMAIN TokenMap(acc, u, m))

\* A PnL leaderboard in which a (user, market, token) was folded twice, so
\* that its market entry is no longer the sum of its token entries.
C9_Witness ==
    /\ op = "profit" /\ dup
    /\ \E u \in Users, m \in Markets :
          MarketPnl(acc, u, m) #
              SumOver(TokenMap(acc, u, m), DOMAIN TokenMap(acc, u, m))

\* C2: a row delivered for a (user, market, token) whose row was already
\* folded from an earlier page contributes nothing: after a page made only of
\* such rows, the leaderboard is what it was before the page.
C2_LaterRowsContributeNothing ==
    (/\ op \in {"portfolio", "profit"}
     /\ pc # "rejected"
     /\ lastPage # <<>>
     /\ GroupsOf(lastPage) \subseteq seenPrev) => acc = prevAcc

\* The last page folded holds rows of resolved markets whose token does not
\* intersect the answer.
LosingPage ==
    /\ lastPage # <<>>
    /\ \A i \in Indices(lastPage) :
          IsResolved(lastPage[i]) /\ ~IsWinningToken(lastPage[i])

\* C4: a position of a resolved market whose token does not intersect the
\* answer is reported with value 0 whatever its quantity and price: a page of
\* such rows leaves every portfolio as it was, and every record of such a
\* position in the position list has value 0.
C4_LosingPositionsHaveNoValue ==
    /\ (pc # "rejected" /\ LosingPage /\ op = "portfolio") =>
          \A u \in Users :
             GetOr(acc.userToStats, u, Num(0)) = GetOr(prevAcc.userToStats, u, Num(0))
    /\ (pc # "rejected" /\ LosingPage /\ op = "walletPortfolio") =>
          acc.portfolio = prevAcc.portfolio
    /\ op = "walletPositions" =>
          \A i \in 1..Len(acc.positions) :
             (acc.positions[i].is_resolved /\ ~acc.positions[i].is_winning)
                 => acc.positions[i].value = 0

(***************************************************************************)
(* The query service: tables, filters, ordering, limit and offset          *)
(***************************************************************************)

\* event_type "finalise" and the event type of a trade.
Finalise == <<"f", "i", "n", "a", "l", "i", "s", "e">>

TradeEvent == <<"t">>

\* The collation of text columns.
Alphabet ==
    <<"-", "0", "1", "2", "3", "4", "5", "6", "7", "8", "9",
      "A", "B", "C", "D", "E", "F", "a", "b", "c", "d", "e", "f">>

CharRank(c) == CHOOSE i \in 1..Len(Alphabet) : Alphabet[i] = c

\* s sorts before t in an ascending order_by on a text column.
RECURSIVE TextLess(_, _)
TextLess(s, t) ==
    IF t = <<>> THEN FALSE
    ELSE IF s = <<>> THEN TRUE
    ELSE IF Head(s) = Head(t) THEN TextLess(Tail(s), Tail(t))
    ELSE CharRank(Head(s)) < CharRank(Head(t))

\* order_by [user_address asc, market_address asc, token_id asc]; under the
\* wallet queries' user_address filter it is [market_address asc, token_id asc].
GroupLess(g, h) ==
    \/ TextLess(g[1], h[1])
    \/ g[1] = h[1] /\ TextLess(g[2], h[2])
    \/ g[1] = h[1] /\ g[2] = h[2] /\ NumberOf(g[3]) < NumberOf(h[3])

\* The groups of S in ascending order.
RECURSIVE SortGroups(_)
SortGroups(S) ==
    IF S = {} THEN <<>>
    ELSE LET g == CHOOSE x \in S : \A y \in S \ {x} : GroupLess(x, y)
         IN  <<g>> \o SortGroups(S \ {g})

RowsOf(table) == {table[i] : i \in 1..Len(table)}

\* A service that answers at most one row per request.
SliceCapped(rows, off, limit) ==
    SubSeq(rows, off + 1, IF off + 1 < Len(rows) THEN off + 1 ELSE Len(rows))

\* limit and offset on an ordered result.
Slice(rows, off, limit) ==
    SubSeq(rows, off + 1, IF off + limit < Len(rows) THEN off + limit ELSE Len(rows))

\* A distinct_on that keeps any row of the group.
AnyRows(rows, g) == {r \in rows : GroupOf(r) = g}

\* distinct_on [user_address, market_address, token_id] ordered by
\* block_timestamp desc keeps a row of the group with the greatest
\* block_timestamp; among equal timestamps the service may keep any.
LatestRows(rows, g) ==
    {r \in rows :
        /\ GroupOf(r) = g
        /\ \A s \in rows :
              GroupOf(s) = g =>
                  NumberOf(s.block_timestamp) <= NumberOf(r.block_timestamp)}

\* The pages GetLastPosition / GetLastPositionPnl / GetLastPositionByWallet
\* may answer with for (limit, offset) over the rows that pass the filter.
LastPositionPages(rows, limit, off) ==
    LET groups == Slice(SortGroups({GroupOf(r) : r \in rows}), off, limit)
    IN  {page \in [1..Len(groups) -> rows] :
            \A i \in 1..Len(groups) : page[i] \in LatestRows(rows, groups[i])}

\* where: { user_address: { _eq: $userAddress } }
UserRows(rows, userAddress) == {r \in rows : r.user_address = userAddress}

\* GetTrades: where event_type != "finalise", order_by id asc.
TradesView(table) == SelectSeq(table, LAMBDA r : r.event_type # Finalise)

\* GetMarketLiquidity: where market_address = $marketAddress and
\* event_type != "finalise"; the rows come in the table's order.
LiquidityView(table, market) ==
    SelectSeq(table, LAMBDA r : r.market_address = market /\ r.event_type # Finalise)

\* order_by [market_address asc, token_id asc]
MarketTokenLess(g, h) ==
    \/ TextLess(g[1], h[1])
    \/ g[1] = h[1] /\ NumberOf(g[2]) < NumberOf(h[2])

RECURSIVE SortMarketTokens(_)
SortMarketTokens(S) ==
    IF S = {} THEN <<>>
    ELSE LET g == CHOOSE x \in S : \A y \in S \ {x} : MarketTokenLess(x, y)
         IN  <<g>> \o SortMarketTokens(S \ {g})

MarketTokenOf(r) == <<r.market_address, r.token_id>>

\* distinct_on [market_address, token_id] ordered by block_timestamp desc.
LatestOfMarketToken(rows, g) ==
    {r \in rows :
        /\ MarketTokenOf(r) = g
        /\ \A s \in rows :
              MarketTokenOf(s) = g =>
                  NumberOf(s.block_timestamp) <= NumberOf(r.block_timestamp)}

\* The pages GetUnresolvedMarkets may answer with for (limit, offset).
UnresolvedMarketsPages(rows, limit, off) ==
    LET groups == Slice(SortMarketTokens({MarketTokenOf(r) : r \in rows}), off, limit)
    IN  {page \in [1..Len(groups) -> rows] :
            \A i \in 1..Len(groups) :
                page[i] \in LatestOfMarketToken(rows, groups[i])}

\* The pages GetMarketTokenSupply may answer with: where market_address and
\* token_id match, distinct_on [user_address] ordered by block_timestamp desc.
TokenSupplyPages(rows, market, tokenId, limit, off) ==
    LastPositionPages({r \in rows : /\ r.market_address = market
                                     /\ NumberOf(r.token_id) = tokenId},
                      limit, off)

\* GetMarketClaims: where quantity > 0; the rows come in the table's order.
ClaimsView(table) == SelectSeq(table, LAMBDA r : BigIntOf(r.quantity) > 0)

\* GetMarketClaimsByWallet: where quantity > 0 and user_address = $userAddress.
WalletClaimsView(table, userAddress) ==
    SelectSeq(table, LAMBDA r : BigIntOf(r.quantity) > 0
                                /\ r.user_address = userAddress)

(***************************************************************************)
(* The stored tables an operation runs against                             *)
(***************************************************************************)

\* The number of rows held by the two tables together.
MaxRows == 3

\* The greatest pageSize argument of a leaderboard build.
MaxPageSize == 2

\* const pageSize = 1000 of the wallet-scoped loops and of
\* calculateMarketLiquidity.
WalletPageSize == 1000

LiquidityPageSize == 1000

\* const pageSize = 1000 of getMarketsWithMetrics and calculateTokenSupply.
MetricsPageSize == 1000

\* question { question_resolves(limit: 1) } of a market: MarketC is resolved
\* with answer 1, MarketD is unresolved.
QuestionOf(market) ==
    IF market = MarketC THEN Question(<<Resolve(<<"1">>)>>) ELSE Unresolved

\* A stored ledger row of group g with block_timestamp ts and event type ev;
\* its quantities differ with the timestamp, and the later row of a MarketD
\* position holds nothing.
StoredRow(g, ts, ev) ==
    LET older == (ts = <<"1">>)
        row == LedgerEntry(0, g[1], g[2], g[3], ts,
                           IF g[2] = MarketD /\ ~older THEN <<"0">> ELSE <<"2">>,
                           IF older THEN <<"-", "3">> ELSE <<"-", "5">>,
                           IF older THEN <<"2">> ELSE <<"-", "1">>,
                           <<"-", "1">>, <<"3">>, Priced, QuestionOf(g[2]))
    IN  [row EXCEPT !.event_type = ev]

\* Addresses are stored in lowercase.
StoredGroups ==
    {<<UserA, MarketC, Token1>>, <<UserA, MarketD, Token1>>,
     <<UserB, MarketC, Token1>>}

\* The positions getMarketsWithMetrics runs against: two tokens and two
\* holders in the unresolved market.
MetricsGroups ==
    {<<UserA, MarketC, Token1>>, <<UserA, MarketD, Token1>>,
     <<UserB, MarketD, Token1>>, <<UserA, MarketD, Token2>>}

StoredLedgerRows(o) ==
    CASE o \in {"ot", "liquidity"} ->
             {StoredRow(g, <<"1">>, ev) :
                 g \in StoredGroups, ev \in {TradeEvent, Finalise}}
      [] o = "metrics" ->
             {StoredRow(g, ts, TradeEvent) :
                 g \in MetricsGroups, ts \in {<<"1">>, <<"2">>}}
      [] OTHER ->
             {StoredRow(g, ts, TradeEvent) :
                 g \in StoredGroups, ts \in {<<"1">>, <<"2">>}}

StoredClaimRows ==
    {ClaimEntry(UserA, MarketC, Token1, <<"1">>),
     ClaimEntry(UserA, MarketC, Token1, <<"3">>),
     ClaimEntry(UserA, MarketC, Token1, <<"0">>),
     ClaimEntry(UserB, MarketC, Token1, <<"1">>)}

\* The tables of at most n rows over S.
Tables(S, n) == UNION {[1..k -> S] : k \in 0..n}

\* The ledger's id column numbers its rows in insertion order.
WithIds(rows) == [i \in 1..Len(rows) |-> [rows[i] EXCEPT !.id = i]]

\* The operations with a walletAddress argument.
WalletOps == {"walletPortfolio", "walletPositions"}

FetchOps == Ops \cup {"liquidity", "metrics"}

Init ==
    /\ op \in FetchOps
    /\ walletAddress \in
           (IF op \in WalletOps THEN {UserA, UserAUpper} ELSE {NoWallet})
    /\ marketAddress \in (IF op = "liquidity" THEN Markets ELSE {NoMarket})
    /\ pageSize \in
           (CASE op \in WalletOps -> {WalletPageSize}
              [] op = "liquidity" -> {LiquidityPageSize}
              [] op = "metrics" -> {MetricsPageSize}
              [] OTHER -> 1..MaxPageSize)
    /\ market_claim \in
           (IF op \in ClaimOps THEN Tables(StoredClaimRows, MaxRows) ELSE {<<>>})
    /\ ledger \in
           {WithIds(t) :
               t \in Tables(StoredLedgerRows(op), MaxRows - Len(market_claim))}
    /\ pc = CASE op \in ClaimOps -> "claims"
              [] op = "metrics" -> "markets"
              [] OTHER -> "positions"
    /\ offset = 0
    /\ claims = EmptyMap
    /\ acc = EmptyAcc(op)
    /\ lastPage = <<>>
    /\ prevAcc = EmptyAcc(op)
    /\ seenPrev = {}
    /\ dup = FALSE
    /\ claimBag = EmptyMap
    /\ foldedIds = <<>>
    /\ requests = <<>>
    /\ nfold = 0
    /\ cashReads = <<>>
    /\ result = Pending
    /\ outstanding = NextIssue(pc, offset, acc, pageSize)
    /\ FirstCall
    /\ ServerIdle

(***************************************************************************)
(* The pagination loops                                                    *)
(***************************************************************************)

\* GQL_CLIENT.request(query, { limit: pageSize, offset }) answered with entries.
Request(loop, entries) ==
    /\ Awaited(loop, offset)
    /\ requests' = Append(requests, [loop |-> loop, offset |-> offset,
                                     limit |-> pageSize, rows |-> Len(entries)])

\* A request whose failure is logged and the loop carried on.
RequestFailsSwallowed(loop) ==
    /\ requests' = Append(requests, [loop |-> loop, offset |-> offset,
                                     limit |-> pageSize, rows |-> Failed])
    /\ UNCHANGED <<serverVars, callVars, argVars, dbVars, cashReads, pc, offset, claims, acc, ledgerHistory,
                   claimBag, nfold, result>>
    /\ IssueNext

\* await GQL_CLIENT.request(...) rejects: the error leaves the loop and the
\* function (the wallet-scoped loops log it and throw it again), so the
\* operation's promise rejects with it.
RequestFails(loop) ==
    /\ Awaited(loop, offset)
    /\ requests' = Append(requests, [loop |-> loop, offset |-> offset,
                                     limit |-> pageSize, rows |-> Failed])
    /\ pc' = "rejected"
    /\ result' = Rejected(TransportError(Len(requests) + 1))
    /\ UNCHANGED <<serverVars, callVars, argVars, dbVars, cashReads, offset, claims, acc, ledgerHistory,
                   claimBag, nfold>>
    /\ IssueNext

\* A claims loop that goes on to the ledger after its first page.
ClaimsLoopStepFirstPageOnly(entries) ==
    /\ Request("claims", entries)
    /\ IF entries = <<>>
       THEN UNCHANGED <<claims, claimBag, nfold>>
       ELSE FoldClaimsPage(entries)
    /\ pc' = "positions"
    /\ offset' = 0
    /\ UNCHANGED <<serverVars, callVars, argVars, dbVars, cashReads, acc, ledgerHistory, result>>
    /\ IssueNext

\* One iteration of a claims loop on the page answered, up to the next
\* request: the empty-page break, processClaims, offset += pageSize, the
\* short-page exit, and the reset of offset before the ledger loop.
ClaimsLoopStep(entries) ==
    /\ Request("claims", entries)
    /\ IF entries = <<>>
       THEN /\ pc' = "positions"
            /\ offset' = 0
            /\ UNCHANGED <<claims, claimBag, nfold>>
       ELSE /\ FoldClaimsPage(entries)
            /\ IF Len(entries) < pageSize
               THEN pc' = "positions" /\ offset' = 0
               ELSE pc' = "claims" /\ offset' = offset + pageSize
    /\ UNCHANGED <<serverVars, callVars, argVars, dbVars, cashReads, acc, ledgerHistory, result>>
    /\ IssueNext

\* One iteration of a ledger loop on the page answered, up to the next
\* request.  emptyBreaks: the loop has the `entries.length === 0` break;
\* readsHasMore: the loop condition reads the hasMore flag that a short page
\* clears; after: where the operation stands when the loop is left (the cash
\* step starts its index at 0).
LedgerLoopStep(entries, emptyBreaks, readsHasMore, after) ==
    /\ Request("positions", entries)
    /\ IF entries = <<>> /\ emptyBreaks
       THEN /\ pc' = after
            /\ offset' = IF after = "cash" THEN 0 ELSE offset
            /\ UNCHANGED <<acc, ledgerHistory, nfold>>
       ELSE \E threw \in BOOLEAN :
               /\ FoldLedgerPage(entries, threw)
               /\ IF threw
                  THEN pc' = "rejected" /\ offset' = offset
                  ELSE IF Len(entries) < pageSize /\ readsHasMore
                  THEN /\ pc' = after
                       /\ offset' = IF after = "cash" THEN 0
                                    ELSE offset + pageSize
                  ELSE pc' = "positions" /\ offset' = offset + pageSize
    /\ result' = CASE pc' = "done" -> Resolved(acc')
                    [] pc' = "rejected" -> Rejected(TypeError)
                    [] OTHER -> result
    /\ UNCHANGED <<serverVars, callVars, argVars, dbVars, cashReads, claims, claimBag>>
    /\ IssueNext

\* buildPortfolioLeaderboard: the claims loop.
PortfolioFetchClaims ==
    /\ op = "portfolio" /\ pc = "claims"
    /\ \/ RequestFails("claims")
       \/ ClaimsLoopStep(Slice(ClaimsView(market_claim), offset, pageSize))

\* buildPortfolioLeaderboard: the ledger loop.
PortfolioFetchLedger ==
    /\ op = "portfolio" /\ pc = "positions"
    /\ \/ RequestFails("positions")
       \/ \E entries \in LastPositionPages(RowsOf(ledger), pageSize, offset) :
             LedgerLoopStep(entries, TRUE, TRUE, "cash")

\* buildProfitLeaderboard: while (true) leaves only on an empty page.
ProfitFetchLedger ==
    /\ op = "profit" /\ pc = "positions"
    /\ \/ RequestFails("positions")
       \/ \E entries \in LastPositionPages(RowsOf(ledger), pageSize, offset) :
             LedgerLoopStep(entries, TRUE, FALSE, "done")

\* buildOTLeaderboard
OTFetchLedger ==
    /\ op = "ot" /\ pc = "positions"
    /\ \/ RequestFails("positions")
       \/ LedgerLoopStep(Slice(TradesView(ledger), offset, pageSize),
                         TRUE, TRUE, "done")

\* getWalletPortfolio: the claims loop, filtered by the lowercased address.
WalletFetchClaims ==
    /\ op = "walletPortfolio" /\ pc = "claims"
    /\ LET normalizedWalletAddress == ToLowerCase(walletAddress)
       IN  \/ RequestFails("claims")
           \/ ClaimsLoopStep(Slice(WalletClaimsView(market_claim,
                                                    normalizedWalletAddress),
                                   offset, pageSize))

\* getWalletPortfolio: the ledger loop, filtered by the lowercased address.
WalletFetchLedger ==
    /\ op = "walletPortfolio" /\ pc = "positions"
    /\ LET normalizedWalletAddress == ToLowerCase(walletAddress)
       IN  \/ RequestFails("positions")
           \/ \E entries \in
                  LastPositionPages(UserRows(RowsOf(ledger),
                                             normalizedWalletAddress),
                                    pageSize, offset) :
                 LedgerLoopStep(entries, TRUE, TRUE, "cash")

\* getWalletPositions
PositionsFetchLedger ==
    /\ op = "walletPositions" /\ pc = "positions"
    /\ LET normalizedWalletAddress == ToLowerCase(walletAddress)
       IN  \/ RequestFails("positions")
           \/ \E entries \in
                  LastPositionPages(UserRows(RowsOf(ledger),
                                             normalizedWalletAddress),
                                    pageSize, offset) :
                 LedgerLoopStep(entries, TRUE, TRUE, "done")

\* calculateMarketLiquidity: no empty-page break.
LiquidityFetchLedger ==
    /\ op = "liquidity" /\ pc = "positions"
    /\ \/ RequestFails("positions")
       \/ LedgerLoopStep(Slice(LiquidityView(ledger, marketAddress),
                               offset, pageSize),
                         FALSE, TRUE, "done")

(***************************************************************************)
(* Market metrics                                                          *)
(***************************************************************************)

\* A page request of getMarketsWithMetrics or of a calculation it awaits.
MetricsRequest(loop, off, rows, market, tokenId) ==
    /\ Awaited(loop, off)
    /\ requests' = Append(requests,
                       [loop |-> loop, offset |-> off, limit |-> pageSize,
                        rows |-> rows, marketAddress |-> market,
                        tokenId |-> tokenId])

\* The request fails: nothing catches the error and the operation rejects.
MetricsRequestFails(loop, off, market, tokenId) ==
    /\ MetricsRequest(loop, off, Failed, market, tokenId)
    /\ pc' = "rejected"
    /\ result' = Rejected(TransportError(Len(requests) + 1))
    /\ UNCHANGED <<serverVars, callVars, argVars, dbVars, cashReads, offset, claims, acc,
                   ledgerHistory, claimBag, nfold>>
    /\ IssueNext

\* The for loop of getMarketsWithMetrics runs on from entry i of the page up
\* to its next await; past the last entry the page is done.
MetricsRunFrom(marketMap, page, i) ==
    LET next == NextUnresolved(page, i)
        idle == [offset |-> 0, total |-> 0]
    IN  IF next <= Len(page)
        THEN /\ acc' = [marketMap |-> marketMap, page |-> page, i |-> next,
                        call |-> idle]
             /\ pc' = IF MarketIndex(marketMap, page[next].market_address) = 0
                      THEN "liquidity" ELSE "supply"
             /\ UNCHANGED <<offset, result>>
        ELSE /\ acc' = [marketMap |-> marketMap, page |-> <<>>, i |-> 0,
                        call |-> idle]
             /\ offset' = offset + pageSize
             /\ pc' = IF Len(page) < pageSize THEN "done" ELSE "markets"
             /\ result' = IF Len(page) < pageSize THEN Resolved(marketMap)
                          ELSE result

\* getMarketsWithMetrics: a page of GetUnresolvedMarkets.
MetricsFetchMarkets ==
    /\ op = "metrics" /\ pc = "markets"
    /\ \/ MetricsRequestFails("markets", offset, NoMarket, 0)
       \/ \E entries \in UnresolvedMarketsPages(RowsOf(ledger), pageSize, offset) :
             /\ MetricsRequest("markets", offset, Len(entries), NoMarket, 0)
             /\ MetricsRunFrom(acc.marketMap, entries, 1)
             /\ UNCHANGED <<serverVars, callVars, argVars, dbVars, cashReads, claims,
                            ledgerHistory, claimBag, nfold>>
             /\ IssueNext

\* calculateMarketLiquidity(marketAddress) for the entry's market: one page
\* of its loop; after a short page the market's record is created.
MetricsFetchLiquidity ==
    /\ op = "metrics" /\ pc = "liquidity"
    /\ LET entry == acc.page[acc.i]
           market == entry.market_address
           entries == Slice(LiquidityView(ledger, market), acc.call.offset, pageSize)
           totalLiquidity == LiquidityFoldPage(acc.call.total, entries)
       IN  \/ MetricsRequestFails("liquidity", acc.call.offset, market, 0)
           \/ /\ MetricsRequest("liquidity", acc.call.offset, Len(entries), market, 0)
              /\ IF Len(entries) < pageSize
                 THEN /\ acc' = [acc EXCEPT
                                    !.marketMap =
                                        Append(@, [market_address |-> market,
                                                   total_liquidity |-> totalLiquidity,
                                                   outcome_tokens |-> <<>>]),
                                    !.call = [offset |-> 0, total |-> 0]]
                      /\ pc' = "supply"
                 ELSE /\ acc' = [acc EXCEPT
                                    !.call = [offset |-> @.offset + pageSize,
                                              total |-> totalLiquidity]]
                      /\ pc' = "liquidity"
              /\ UNCHANGED <<serverVars, callVars, argVars, dbVars, cashReads, offset, claims,
                             ledgerHistory, claimBag, nfold, result>>
              /\ IssueNext

\* calculateTokenSupply(marketAddress, parseInt(entry.token_id)): one page of
\* its loop; after a short page the outcome token is pushed and the for loop
\* runs on.
MetricsFetchSupply ==
    /\ op = "metrics" /\ pc = "supply"
    /\ LET entry == acc.page[acc.i]
           market == entry.market_address
           tokenId == NumberOf(entry.token_id)
       IN  \/ MetricsRequestFails("supply", acc.call.offset, market, tokenId)
           \/ \E entries \in TokenSupplyPages(RowsOf(ledger), market, tokenId,
                                              pageSize, acc.call.offset) :
                 LET totalSupply == SupplyFoldPage(acc.call.total, entries)
                 IN  /\ MetricsRequest("supply", acc.call.offset, Len(entries),
                                       market, tokenId)
                     /\ IF Len(entries) < pageSize
                        THEN MetricsRunFrom(
                                 PushOutcomeToken(acc.marketMap, entry, totalSupply),
                                 acc.page, acc.i + 1)
                        ELSE /\ acc' = [acc EXCEPT
                                           !.call = [offset |-> @.offset + pageSize,
                                                     total |-> totalSupply]]
                             /\ UNCHANGED <<pc, offset, result>>
                     /\ UNCHANGED <<serverVars, callVars, argVars, dbVars, cashReads, claims,
                                    ledgerHistory, claimBag, nfold>>
                     /\ IssueNext

(***************************************************************************)
(* Cash balances                                                           *)
(***************************************************************************)

\* const BATCH_SIZE = 500, scaled down so that a leaderboard of two users
\* takes more than one batch.
BATCH_SIZE == 1

\* balanceOf results, in units of 10^-6.
Balances == {0, 5}

\* The outcome of one balanceOf read.
BalanceResults ==
    {[status |-> "success", result |-> b] : b \in Balances}
    \cup {[status |-> "failure", result |-> 0]}

RECURSIVE SortTexts(_)
SortTexts(S) ==
    IF S = {} THEN <<>>
    ELSE LET a == CHOOSE x \in S : \A y \in S \ {x} : TextLess(x, y)
         IN  <<a>> \o SortTexts(S \ {a})

\* Array.from(leaderboard.userToStats.keys()): the keys in insertion order,
\* which is the ascending user_address order of the ledger pages.
UserAddressesOf(userToStats) == SortTexts(DOMAIN userToStats)

\* A forEach in which a failed result wipes the user's entry.
RECURSIVE ApplyBalancesWiping(_, _, _, _)
ApplyBalancesWiping(userToStats, batch, results, i) ==
    IF i > Len(batch) THEN userToStats
    ELSE LET userAddress == batch[i]
             currentPortfolio == GetOr(userToStats, userAddress, Num(0))
             usdcBalance == FormatUnits(results[i].result, USDC_DECIMALS)
         IN  ApplyBalancesWiping(
                 IF results[i].status = "success"
                 THEN MapSet(userToStats, userAddress,
                             NumAdd(currentPortfolio, usdcBalance))
                 ELSE MapSet(userToStats, userAddress, Num(0)),
                 batch, results, i + 1)

\* The error of a PUBLIC_CLIENT.multicall call that rejects as a whole.
RpcError == [kind |-> "rpc", request |-> 0]

\* The reads of one multicall batch, for the history.
BatchReads(k, batch, results) ==
    [i \in 1..Len(batch) |->
        [batch |-> k, address |-> batch[i], status |-> results[i].status,
         result |-> results[i].result]]

\* results.forEach of one multicall batch, from index i on.
RECURSIVE ApplyBalances(_, _, _, _)
ApplyBalances(userToStats, batch, results, i) ==
    IF i > Len(batch) THEN userToStats
    ELSE LET userAddress == batch[i]
             currentPortfolio == GetOr(userToStats, userAddress, Num(0))
             usdcBalance == FormatUnits(results[i].result, USDC_DECIMALS)
         IN  ApplyBalances(
                 IF results[i].status = "success"
                 THEN MapSet(userToStats, userAddress,
                             NumAdd(currentPortfolio, usdcBalance))
                 ELSE userToStats,
                 batch, results, i + 1)

\* A batch that starts over at the first address.
BatchFromStart(userAddresses, i) == Slice(userAddresses, 0, i + BATCH_SIZE)

\* userAddresses.slice(i, i + BATCH_SIZE)
BatchAt(userAddresses, i) == Slice(userAddresses, i, BATCH_SIZE)

\* buildPortfolioLeaderboard: one multicall batch of the cash loop; offset
\* holds the loop index i.
PortfolioCashBatch ==
    /\ op = "portfolio" /\ pc = "cash"
    /\ LET userAddresses == UserAddressesOf(acc.userToStats)
           batch == BatchAt(userAddresses, offset)
       IN  /\ offset < Len(userAddresses)
           /\ \/ \E results \in [1..Len(batch) -> BalanceResults] :
                    /\ acc' = [userToStats |->
                                  ApplyBalances(acc.userToStats, batch,
                                                results, 1)]
                    /\ cashReads' =
                           cashReads \o BatchReads(offset \div BATCH_SIZE + 1,
                                                   batch, results)
                    /\ offset' = offset + BATCH_SIZE
                    /\ UNCHANGED <<pc, result>>
              \/ /\ pc' = "rejected"
                 /\ result' = Rejected(RpcError)
                 /\ UNCHANGED <<acc, cashReads, offset>>
    /\ UNCHANGED <<serverVars, callVars, argVars, dbVars, claims, ledgerHistory, claimBag,
                   requests, nfold, outstanding>>

\* buildPortfolioLeaderboard: the cash loop is over, the leaderboard returned.
PortfolioReturn ==
    /\ op = "portfolio" /\ pc = "cash"
    /\ offset >= Len(UserAddressesOf(acc.userToStats))
    /\ pc' = "done"
    /\ result' = Resolved(acc)
    /\ UNCHANGED <<serverVars, callVars, argVars, dbVars, cashReads, offset, claims, acc, ledgerHistory, claimBag,
                   requests, nfold, outstanding>>

\* getWalletPortfolio: the balance read (a failed read is caught) and return.
WalletCash ==
    /\ op = "walletPortfolio" /\ pc = "cash"
    /\ \E balance \in BalanceResults :
          /\ acc' = IF balance.status = "success"
                    THEN [portfolio |->
                             NumAdd(acc.portfolio,
                                    FormatUnits(balance.result, USDC_DECIMALS))]
                    ELSE acc
          /\ cashReads' = Append(cashReads,
                                 [batch |-> 1, address |-> walletAddress,
                                  status |-> balance.status,
                                  result |-> balance.result])
    /\ pc' = "done"
    /\ result' = Resolved(acc')
    /\ UNCHANGED <<serverVars, callVars, argVars, dbVars, offset, claims, ledgerHistory, claimBag,
                   requests, nfold, outstanding>>

Next ==
    \/ PortfolioFetchClaims
    \/ PortfolioFetchLedger
    \/ PortfolioCashBatch
    \/ PortfolioReturn
    \/ ProfitFetchLedger
    \/ OTFetchLedger
    \/ WalletFetchClaims
    \/ WalletFetchLedger
    \/ WalletCash
    \/ PositionsFetchLedger
    \/ LiquidityFetchLedger
    \/ MetricsFetchMarkets
    \/ MetricsFetchLiquidity
    \/ MetricsFetchSupply

Spec == Init /\ [][Next]_vars

(***************************************************************************)
(* Properties of the operations on stored tables                           *)
(***************************************************************************)

\* The ledger loop of the operation is over.
Finished == pc \in {"cash", "done"}

\* The last ledger page has been folded and no cash balance added yet.
PageJustFolded ==
    lastPage # <<>> /\ (pc = "positions" \/ (pc = "cash" /\ offset = 0))

\* The ledger rows in the scope of the operation: the wallet's rows for a
\* wallet-scoped operation, all rows otherwise.
ScopeRows ==
    IF op \in WalletOps
    THEN {r \in RowsOf(ledger) : r.user_address = ToLowerCase(walletAddress)}
    ELSE RowsOf(ledger)

\* The positions in foldedIds of the rows of group g.
FoldedOf(g) ==
    {i \in 1..Len(foldedIds) : GroupOf(ledger[foldedIds[i]]) = g}

\* Row r is a latest row of its group.
IsLatest(r) ==
    \A s \in RowsOf(ledger) :
        GroupOf(s) = GroupOf(r) =>
            ParseSigned(s.block_timestamp) <= ParseSigned(r.block_timestamp)

\* C1: when the ledger loop of buildPortfolioLeaderboard,
\* buildProfitLeaderboard, getWalletPortfolio or getWalletPositions is over,
\* every (user, market, token) group of the ledger in the operation's scope
\* has had exactly one row folded, a row with the greatest block_timestamp of
\* the group, and nothing else was folded; this for every page size.
C1_OneLatestRowPerGroup ==
    (op \in LatestOps /\ Finished) =>
        /\ \A g \in {GroupOf(r) : r \in ScopeRows} :
              /\ Cardinality(FoldedOf(g)) = 1
              /\ \A i \in FoldedOf(g) : IsLatest(ledger[foldedIds[i]])
        /\ \A i \in 1..Len(foldedIds) : ledger[foldedIds[i]] \in ScopeRows

\* A portfolio build with page size 1 is over on a ledger holding two groups,
\* one of them with an older row stored after its latest row.
C1_Witness ==
    /\ op = "portfolio" /\ pc = "done" /\ pageSize = 1
    /\ Len(foldedIds) = 2
    /\ \E i, j \in 1..Len(ledger) :
          /\ i < j
          /\ GroupOf(ledger[i]) = GroupOf(ledger[j])
          /\ ParseSigned(ledger[j].block_timestamp)
                 < ParseSigned(ledger[i].block_timestamp)

\* The sum of the quantities of the stored claim records of group g.
StoredClaimed(g) ==
    SumOver([i \in 1..Len(market_claim) |-> ParseSigned(market_claim[i].quantity)],
            {i \in 1..Len(market_claim) : GroupOf(market_claim[i]) = g})

\* The payout per unit of the row's outcome, 0 when none is known.
PayoutPerUnit(entry) ==
    IF entry.outcome.null \/ entry.outcome.outcome_stats = <<>> THEN 0
    ELSE IF entry.outcome.outcome_stats[1].payout_hmr = Null THEN 0
    ELSE ParseSigned(entry.outcome.outcome_stats[1].payout_hmr)

\* payout per unit times max(0, -delta_quantity - claimed), in token units.
Entitlement(entry) ==
    LET remainder == (0 - ParseSigned(entry.delta_quantity))
                     - StoredClaimed(GroupOf(entry))
    IN  NumScale(PayoutPerUnit(entry),
                 FormatUnits(IF remainder > 0 THEN remainder ELSE 0,
                             TOKEN_DECIMALS))

\* The last page folded holds rows of resolved markets whose token intersects
\* the answer.
WinningPage ==
    \A i \in Indices(lastPage) :
        IsResolved(lastPage[i]) /\ IsWinningToken(lastPage[i])

\* C3: a position of a resolved market whose token intersects the answer adds
\* payout per unit times max(0, -delta_quantity - total claimed for its
\* (user, market, token)) to the portfolio, so exactly 0 when the remainder
\* is zero or negative: after a page of such rows every portfolio has grown
\* by the sum of that amount over its rows of the page.
C3_WinningValueIsPayoutTimesRemainder ==
    (PageJustFolded /\ WinningPage) =>
        /\ op = "portfolio" =>
             \A u \in Users :
                GetOr(acc.userToStats, u, Num(0)) =
                    NumAdd(GetOr(prevAcc.userToStats, u, Num(0)),
                           NumSumRows(lastPage, RowsOfUser(lastPage, u),
                                      Entitlement))
        /\ op = "walletPortfolio" =>
             acc.portfolio =
                 NumAdd(prevAcc.portfolio,
                        NumSumRows(lastPage, Indices(lastPage), Entitlement))

\* C6: in getWalletPortfolio the claimed amount read for a winning resolved
\* position (market m, token t) is the sum of the quantities of the claim
\* records fetched for the wallet with market m and token t, for every
\* letter case of the walletAddress argument.
C6_WalletLookupFindsFetchedClaims ==
    (op = "walletPortfolio" /\ PageJustFolded) =>
        \A i \in Indices(lastPage) :
            (IsResolved(lastPage[i]) /\ IsWinningToken(lastPage[i])) =>
                WalletClaimedWei(claims, walletAddress,
                                 lastPage[i].market_address, lastPage[i].token_id)
                    = ClaimedTotal(claimBag, GroupOf(lastPage[i]))

\* The requests of a loop, by their position in the request history.
RequestsOf(loop) == {i \in 1..Len(requests) : requests[i].loop = loop}

Loops == {"claims", "positions"}

\* The k-th request of every loop asks for offset (k - 1) * N with limit N.
OffsetsAreMultiples ==
    \A loop \in Loops : \A i \in RequestsOf(loop) :
        /\ requests[i].limit = pageSize
        /\ requests[i].offset =
               Cardinality({j \in RequestsOf(loop) : j < i}) * pageSize

\* No loop issues a request after a page of fewer than N rows.
NoRequestAfterShortPage ==
    \A loop \in Loops : \A i, j \in RequestsOf(loop) :
        i < j => requests[i].rows = requests[i].limit

\* The rows the claims loop of the operation ranges over.
ClaimsSource ==
    IF op = "walletPortfolio"
    THEN WalletClaimsView(market_claim, ToLowerCase(walletAddress))
    ELSE ClaimsView(market_claim)

\* When the loops are over every row of their source has been folded once:
\* the claim records that pass the filter, the trades in id order, and one
\* row per group of a distinct_on query.
EachRowFoldedOnce ==
    Finished =>
        /\ op \in ClaimOps =>
             claimBag = BagAddAll(EmptyMap, ClaimsSource)
        /\ op = "ot" =>
             foldedIds = [i \in 1..Len(TradesView(ledger)) |->
                             TradesView(ledger)[i].id]
        /\ op = "liquidity" =>
             foldedIds = [i \in 1..Len(LiquidityView(ledger, marketAddress)) |->
                             LiquidityView(ledger, marketAddress)[i].id]
        /\ op \in LatestOps =>
             /\ Len(foldedIds) = Cardinality({GroupOf(r) : r \in ScopeRows})
             /\ \A g \in {GroupOf(r) : r \in ScopeRows} :
                   Cardinality(FoldedOf(g)) = 1

\* C10: on tables that do not change, every pagination loop asks for offsets
\* 0, N, 2N, ... in this order, asks for nothing after the first page of
\* fewer than N rows, and has folded each row of its source exactly once
\* when it is over.
C10_LoopStopsAfterFirstShortPage ==
    /\ OffsetsAreMultiples
    /\ NoRequestAfterShortPage
    /\ EachRowFoldedOnce

(***************************************************************************)
(* Failed page requests                                                    *)
(***************************************************************************)

\* The requests of the history that failed.
FailedRequests == {i \in 1..Len(requests) : requests[i].rows = Failed}

\* C11: when a page request of an operation fails, the operation's promise
\* is rejected with the error of that request and carries no value, the
\* failed request is the last request the operation issued (no further page,
\* no retry), and no operation resolves after a failed request.
C11_FailedRequestRejectsOperation ==
    /\ \A i \in FailedRequests :
          /\ i = Len(requests)
          /\ pc = "rejected"
          /\ result = Rejected(TransportError(i))
    /\ result.status = "resolved" => FailedRequests = {}

\* An operation that had folded rows of an earlier page was rejected by a
\* failed request.
C11_Witness ==
    /\ result.status = "rejected" /\ result.error.kind = "transport"
    /\ result.error.request >= 2
    /\ nfold > 0

(***************************************************************************)
(* Page-size independence                                                  *)
(***************************************************************************)

\* The whole result of GetLastPosition / GetLastPositionPnl as one page: a
\* latest row of every group, in the order of the groups.
WholeLatestView ==
    LET groups == SortGroups({GroupOf(r) : r \in RowsOf(ledger)})
    IN  [i \in 1..Len(groups) |->
            CHOOSE r \in RowsOf(ledger) :
                GroupOf(r) = groups[i] /\ IsLatest(r)]

\* The position values of the portfolio leaderboard when all claims and all
\* positions arrive in one page each.
WholePortfolio ==
    PortfolioFoldPage(EmptyMap, WholeLatestView,
                      processClaims(EmptyMap, ClaimsView(market_claim))).map

\* The amounts a cash-balance read can add to an entry.
CashAdded == {FormatUnits(b, USDC_DECIMALS) : b \in Balances \cup {0}}

\* C12: on an unchanged ledger buildOTLeaderboard, buildProfitLeaderboard and
\* buildPortfolioLeaderboard return, for every page size, the aggregates
\* they return when the whole ledger arrives as a single page: the page size
\* changes no value of the result (for the portfolio: no position value, and
\* with it no total after the cash balances are added).
C12_PageSizeChangesNoValue ==
    /\ (op = "ot" /\ pc = "done") =>
          result = Resolved(OTProcessBatch(EmptyOTLeaderboard, TradesView(ledger)))
    /\ (op = "profit" /\ pc = "done") =>
          result = Resolved(PnlProcessBatch(EmptyPnlLeaderboard, WholeLatestView))
    /\ (op = "portfolio" /\ pc = "cash" /\ offset = 0) =>
          acc.userToStats = WholePortfolio
    /\ (op = "portfolio" /\ pc = "done") =>
          /\ DOMAIN result.value.userToStats = DOMAIN WholePortfolio
          /\ \A u \in DOMAIN WholePortfolio :
                \E cash \in CashAdded :
                   result.value.userToStats[u] = NumAdd(WholePortfolio[u], cash)

\* A leaderboard was returned after three ledger pages of one row each.
C12_Witness ==
    /\ op \in {"ot", "profit", "portfolio"} /\ pc = "done"
    /\ pageSize = 1
    /\ Len(foldedIds) = 3

(***************************************************************************)
(* Cash balance reads                                                      *)
(***************************************************************************)

\* The reads of address u made by the step.
NewReadsOf(u) ==
    {i \in (Len(cashReads) + 1)..Len(cashReads') : cashReads'[i].address = u}

\* C13: a failed balance read adds nothing and aborts nothing.
\* getWalletPortfolio resolves with the sum of the position values when its
\* read fails (and with that sum plus the balance when it succeeds); a
\* multicall batch of buildPortfolioLeaderboard leaves the entry of a user
\* whose result failed, and of every user outside the batch, as it was, and
\* adds to each other user of the batch that user's own balance.
C13_FailedBalanceReadAddsNothing ==
    [][/\ (op = "walletPortfolio" /\ pc = "cash" /\ pc' # "cash") =>
             LET read == cashReads'[Len(cashReads')]
             IN  /\ Len(cashReads') = Len(cashReads) + 1
                 /\ result' =
                       Resolved([portfolio |->
                                    IF read.status = "failure" THEN acc.portfolio
                                    ELSE NumAdd(acc.portfolio,
                                                FormatUnits(read.result,
                                                            USDC_DECIMALS))])
       /\ (op = "portfolio" /\ pc = "cash" /\ cashReads' # cashReads) =>
             /\ DOMAIN acc'.userToStats = DOMAIN acc.userToStats
             /\ pc' = "cash"
             /\ \A u \in DOMAIN acc.userToStats :
                   /\ Cardinality(NewReadsOf(u)) <= 1
                   /\ (\A i \in NewReadsOf(u) : cashReads'[i].status = "failure")
                         => acc'.userToStats[u] = acc.userToStats[u]
                   /\ \A i \in NewReadsOf(u) :
                         cashReads'[i].status = "success" =>
                             acc'.userToStats[u] =
                                 NumAdd(acc.userToStats[u],
                                        FormatUnits(cashReads'[i].result,
                                                    USDC_DECIMALS))
      ]_vars

\* A portfolio leaderboard was returned after the balance read of one user
\* failed and that of another user gave a non-zero balance.
C13_Witness ==
    /\ op = "portfolio" /\ pc = "done" /\ result.status = "resolved"
    /\ \E i, j \in 1..Len(cashReads) :
          /\ cashReads[i].status = "failure"
          /\ cashReads[j].status = "success" /\ cashReads[j].result > 0
          /\ cashReads[i].address # cashReads[j].address

(***************************************************************************)
(* The position list                                                       *)
(***************************************************************************)

\* The records of the list for market m and token t.
RecordsOf(positions, m, t) ==
    {i \in 1..Len(positions) :
        positions[i].market_address = m /\ positions[i].token_id = t}

\* The latest rows of the wallet's position g.
LatestOfScope(g) == {r \in ScopeRows : GroupOf(r) = g /\ IsLatest(r)}

\* C14: the list getWalletPositions returns holds exactly one record for
\* every (market, token) of the wallet whose latest row holds a non-zero
\* quantity, carrying that quantity, no record for a position whose latest
\* row holds zero, and no other record.
C14_OneRecordPerHeldPosition ==
    (op = "walletPositions" /\ pc = "done") =>
        LET positions == result.value.positions
        IN  /\ \A g \in {GroupOf(r) : r \in ScopeRows} :
                  \A r \in LatestOfScope(g) :
                     IF HeldQuantity(r) # 0
                     THEN /\ Cardinality(RecordsOf(positions, g[2], g[3])) = 1
                          /\ \A i \in RecordsOf(positions, g[2], g[3]) :
                                positions[i].quantity = HeldQuantity(r)
                     ELSE RecordsOf(positions, g[2], g[3]) = {}
            /\ \A i \in 1..Len(positions) :
                  \E r \in ScopeRows :
                     /\ r.market_address = positions[i].market_address
                     /\ r.token_id = positions[i].token_id

\* A wallet with a held position and a position whose latest row holds
\* nothing got its list.
C14_Witness ==
    /\ op = "walletPositions" /\ pc = "done"
    /\ Len(result.value.positions) = 1
    /\ \E r \in ScopeRows : IsLatest(r) /\ HeldQuantity(r) = 0
    /\ \E r \in ScopeRows : ~IsLatest(r)

(***************************************************************************)
(* Positions without a price / payout snapshot                             *)
(***************************************************************************)

\* The row's outcome exists and its outcome_stats list is empty.
NoSnapshot(entry) ==
    ~entry.outcome.null /\ entry.outcome.outcome_stats = <<>>

\* C15: a position whose outcome has no price / payout snapshot does not make
\* buildPortfolioLeaderboard or getWalletPortfolio fail, and it is valued at
\* 0: the operation is never rejected by a fold, and a page made only of
\* such positions leaves the portfolio values as they were.
C15_MissingSnapshotIsValuedZero ==
    op \in ClaimOps =>
        /\ result.status # "rejected"
        /\ (lastPage # <<>> /\ \A i \in Indices(lastPage) : NoSnapshot(lastPage[i]))
              => acc = prevAcc

(***************************************************************************)
(* The market monitor                                                      *)
(***************************************************************************)

\* No query operation is running.
QueryIdle ==
    /\ op = "none"
    /\ walletAddress = NoWallet
    /\ marketAddress = NoMarket
    /\ pageSize = 0
    /\ ledger = <<>>
    /\ market_claim = <<>>
    /\ pc = "done"
    /\ offset = 0
    /\ claims = EmptyMap
    /\ acc = <<>>
    /\ lastPage = <<>>
    /\ prevAcc = <<>>
    /\ seenPrev = {}
    /\ dup = FALSE
    /\ claimBag = EmptyMap
    /\ foldedIds = <<>>
    /\ requests = <<>>
    /\ nfold = 0
    /\ cashReads = <<>>
    /\ result = Pending
    /\ outstanding = <<>>
    /\ FirstCall

\* The most Slack notifications followed.
MaxNotifications == 3

\* The markets that may go live.
MonitorMarkets == {MarketC, MarketD}

\* loadKnownMarkets: the markets list of the file, empty when the file does
\* not exist.
loadKnownMarkets(file) == IF file = Missing THEN <<>> ELSE file

\* The loop body of getAllMarkets: keep the first entry of every lowercased
\* market address.
RECURSIVE KeepUnseen(_, _, _)
KeepUnseen(entries, seenMarkets, markets) ==
    IF entries = <<>> THEN markets
    ELSE LET address == Head(entries)
         IN  IF ToLowerCase(address) \in seenMarkets
             THEN KeepUnseen(Tail(entries), seenMarkets, markets)
             ELSE KeepUnseen(Tail(entries),
                             seenMarkets \cup {ToLowerCase(address)},
                             Append(markets, address))

\* getAllMarkets: the distinct market addresses of the ledger, in ascending
\* order.
getAllMarkets(addresses) == KeepUnseen(SortTexts(addresses), {}, <<>>)

\* allMarkets.filter(market => !knownMarketSet.has(lowercased address))
NewMarketsOf(allMarkets, knownMarkets) ==
    LET knownMarketSet == {ToLowerCase(knownMarkets[i]) : i \in 1..Len(knownMarkets)}
    IN  SelectSeq(allMarkets, LAMBDA market : ToLowerCase(market) \notin knownMarketSet)

\* The values SLACK_WEBHOOK_URL may have.
WebhookUrls == {Unset, SlackUrl, OtherUrl}

MonitorInit ==
    /\ QueryIdle
    /\ MonitorIdle
    /\ TrackedIdle
    /\ TimersIdle
    /\ WalletIdle
    /\ KeysIdle
    /\ env \in [SLACK_WEBHOOK_URL : WebhookUrls, CRON_SECRET : {Unset}]

\* The most checkForNewMarkets calls followed.
MaxChecks == 3

\* A check whose catch block throws the error again.
SettleRethrowing(r, failed) ==
    [run |-> r,
     status |-> IF failed THEN "rejected" ELSE "resolved",
     failed |-> failed,
     response |-> CASE r # "http" -> 0 [] failed -> 500 [] OTHER -> 200]

\* How a checkForNewMarkets call settles: its catch block logs the error and
\* returns, so the promise resolves and POST /api/markets/check answers
\* success.
Settle(r, failed) ==
    [run |-> r, status |-> "resolved", failed |-> failed,
     response |-> IF r = "http" THEN 200 ELSE 0]

\* The run ends.
EndCheck(r, failed) ==
    /\ checks' = [checks EXCEPT ![r] = IdleCheck]
    /\ outcomes' = Append(outcomes, Settle(r, failed))

\* A check that goes on to the save although the notification failed.
NotificationFailureIgnored(r) ==
    /\ checks' = [checks EXCEPT ![r].pc = "save"]
    /\ UNCHANGED outcomes

\* sendSlackNotification throws: the error skips the save and reaches the
\* catch block of checkForNewMarkets.
NotificationFailed(r) == EndCheck(r, TRUE)

\* A market gets its first ledger row.
MarketGoesLive ==
    /\ \E market \in MonitorMarkets \ indexed : indexed' = indexed \cup {market}
    /\ UNCHANGED <<queryVars, trackedVars, otherVars, knownMarketsFile, checks, notifications,
                   outcomes>>

\* The timer fires or POST /api/markets/check arrives: checkForNewMarkets is
\* called.
StartCheck(r) ==
    /\ checks[r].pc = "idle"
    /\ Len(notifications) < MaxNotifications
    /\ Len(outcomes) + Cardinality({q \in Runs : checks[q].pc # "idle"}) < MaxChecks
    /\ checks' = [checks EXCEPT ![r].pc = "load"]
    /\ UNCHANGED <<queryVars, trackedVars, otherVars, knownMarketsFile, indexed, notifications,
                   outcomes>>

\* await loadKnownMarkets(): the list of the file; the empty list when the
\* file cannot be read (its own catch).
LoadKnownMarkets(r) ==
    /\ checks[r].pc = "load"
    /\ \/ checks' = [checks EXCEPT
                        ![r].pc = "fetch",
                        ![r].knownMarkets = loadKnownMarkets(knownMarketsFile)]
       \/ checks' = [checks EXCEPT ![r].pc = "fetch", ![r].knownMarkets = <<>>]
    /\ UNCHANGED <<queryVars, trackedVars, otherVars, knownMarketsFile, indexed, notifications,
                   outcomes>>

\* await getAllMarkets(), then the filter for new markets; a failed request
\* is caught and ends the run.
GetAllMarkets(r) ==
    /\ checks[r].pc = "fetch"
    /\ \/ /\ LET allMarkets == getAllMarkets(indexed)
                newMarkets == NewMarketsOf(allMarkets, checks[r].knownMarkets)
            IN  checks' = [checks EXCEPT
                              ![r].pc = IF Len(newMarkets) > 0 THEN "notify" ELSE "save",
                              ![r].allMarkets = allMarkets,
                              ![r].newMarkets = newMarkets]
          /\ UNCHANGED outcomes
       \/ EndCheck(r, TRUE)
    /\ UNCHANGED <<queryVars, trackedVars, otherVars, knownMarketsFile, indexed, notifications>>

\* New markets were found.  Without SLACK_WEBHOOK_URL the notification is
\* skipped; otherwise await sendSlackNotification(slackWebhookUrl, newMarkets):
\* a URL of another format throws, the message is delivered, or the delivery
\* fails; every error ends the run.
SendSlackNotification(r) ==
    /\ checks[r].pc = "notify"
    /\ \/ /\ env.SLACK_WEBHOOK_URL = Unset
          /\ checks' = [checks EXCEPT ![r].pc = "save"]
          /\ UNCHANGED <<notifications, outcomes>>
       \/ /\ env.SLACK_WEBHOOK_URL = SlackUrl
          /\ notifications' = Append(notifications, checks[r].newMarkets)
          /\ checks' = [checks EXCEPT ![r].pc = "save", ![r].notified = TRUE]
          /\ UNCHANGED outcomes
       \/ /\ env.SLACK_WEBHOOK_URL # Unset
          /\ NotificationFailed(r)
          /\ UNCHANGED notifications
    /\ UNCHANGED <<queryVars, trackedVars, otherVars, knownMarketsFile, indexed>>

\* await saveKnownMarkets(updatedKnownMarkets): every fetched market after
\* new markets were found, the loaded list otherwise; a failed write is caught.
SaveKnownMarkets(r) ==
    /\ checks[r].pc = "save"
    /\ \/ /\ knownMarketsFile' =
                 IF Len(checks[r].newMarkets) > 0
                 THEN checks[r].allMarkets
                 ELSE checks[r].knownMarkets
          /\ EndCheck(r, FALSE)
       \/ /\ UNCHANGED knownMarketsFile
          /\ EndCheck(r, TRUE)
    /\ UNCHANGED <<queryVars, trackedVars, otherVars, indexed, notifications>>

MonitorNext ==
    \/ MarketGoesLive
    \/ \E r \in Runs : StartCheck(r)
    \/ \E r \in Runs : LoadKnownMarkets(r)
    \/ \E r \in Runs : GetAllMarkets(r)
    \/ \E r \in Runs : SendSlackNotification(r)
    \/ \E r \in Runs : SaveKnownMarkets(r)

SpecMonitor == MonitorInit /\ [][MonitorNext]_vars

\* C16: no market address is included in more than one Slack notification,
\* whatever runs of checkForNewMarkets overlap and whichever deliveries fail.
C16_NoMarketNotifiedTwice ==
    \A i, j \in 1..Len(notifications) :
        i # j =>
            \A k \in 1..Len(notifications[i]), l \in 1..Len(notifications[j]) :
                ToLowerCase(notifications[i][k]) # ToLowerCase(notifications[j][l])

(***************************************************************************)
(* The tracked wallets                                                     *)
(***************************************************************************)

\* The most tracked-wallets requests followed.
MaxRequests == 3

\* A request body without walletAddress.
NoBody == <<"undefined">>

\* A text that is not an address.
NotAnAddress == <<"z">>

\* The letters of [a-fA-F0-9] in use.
HexChars == {"a", "b", "c", "d", "e", "f", "A", "B", "C", "D", "E", "F"}

\* /^0x[a-fA-F0-9]{40}$/.test(walletAddress), on the shortened addresses of
\* the model.
IsAddressFormat(text) ==
    /\ Len(text) > 0
    /\ \A i \in 1..Len(text) : text[i] \in HexChars

\* The walletAddress values a request may carry.
RequestAddresses == {UserA, UserAUpper, UserB, NotAnAddress, NoBody}

\* wallets.includes(address)
Includes(wallets, address) == \E i \in 1..Len(wallets) : wallets[i] = address

\* wallets.splice(wallets.indexOf(address), 1)
RemoveFirst(wallets, address) ==
    LET index == CHOOSE i \in 1..Len(wallets) :
                     /\ wallets[i] = address
                     /\ \A j \in 1..(i - 1) : wallets[j] # address
    IN  SubSeq(wallets, 1, index - 1) \o SubSeq(wallets, index + 1, Len(wallets))

\* The requests in flight.
InFlight == {h \in HandlerIds : handlers[h].pc # "idle"}

TrackedInit ==
    /\ QueryIdle
    /\ ServerIdle

\* POST /api/tracked-wallets arrives: the body is validated, then
\* getTrackedWallets is called.
PostTrackedWallet(h) ==
    /\ handlers[h].pc = "idle"
    /\ Len(responses) + Cardinality(InFlight) < MaxRequests
    /\ \E address \in RequestAddresses :
          IF address = NoBody \/ ~IsAddressFormat(address)
          THEN /\ responses' = Append(responses,
                                      [kind |-> "post", address |-> address,
                                       status |-> 400])
               /\ UNCHANGED handlers
          ELSE /\ handlers' = [handlers EXCEPT
                                  ![h] = [pc |-> "read", kind |-> "post",
                                          walletAddress |-> address,
                                          wallets |-> <<>>]]
               /\ UNCHANGED responses
    /\ UNCHANGED <<queryVars, otherVars, monitorVars, trackedWalletsFile>>

\* DELETE /api/tracked-wallets/:walletAddress arrives: getTrackedWallets is
\* called.
DeleteTrackedWallet(h) ==
    /\ handlers[h].pc = "idle"
    /\ Len(responses) + Cardinality(InFlight) < MaxRequests
    /\ \E address \in RequestAddresses \ {NoBody} :
          handlers' = [handlers EXCEPT
                          ![h] = [pc |-> "read", kind |-> "delete",
                                  walletAddress |-> address, wallets |-> <<>>]]
    /\ UNCHANGED <<queryVars, otherVars, monitorVars, trackedWalletsFile, responses>>

\* await getTrackedWallets() returns; the handler answers 400 / 404, or
\* changes its copy of the list and calls saveTrackedWallets.
GetTrackedWallets(h) ==
    /\ handlers[h].pc = "read"
    /\ LET wallets == trackedWalletsFile
           normalizedAddress == ToLowerCase(handlers[h].walletAddress)
       IN  IF handlers[h].kind = "post"
           THEN IF Includes(wallets, normalizedAddress)
                THEN /\ handlers' = [handlers EXCEPT ![h] = IdleHandler]
                     /\ responses' = Append(responses,
                                            [kind |-> "post",
                                             address |-> normalizedAddress,
                                             status |-> 400])
                ELSE /\ handlers' = [handlers EXCEPT
                                        ![h].pc = "save",
                                        ![h].wallets = Append(wallets, normalizedAddress)]
                     /\ UNCHANGED responses
           ELSE IF ~Includes(wallets, normalizedAddress)
                THEN /\ handlers' = [handlers EXCEPT ![h] = IdleHandler]
                     /\ responses' = Append(responses,
                                            [kind |-> "delete",
                                             address |-> normalizedAddress,
                                             status |-> 404])
                ELSE /\ handlers' = [handlers EXCEPT
                                        ![h].pc = "save",
                                        ![h].wallets = RemoveFirst(wallets, normalizedAddress)]
                     /\ UNCHANGED responses
    /\ UNCHANGED <<queryVars, otherVars, monitorVars, trackedWalletsFile>>

\* await saveTrackedWallets(wallets) returns; the handler answers success.
SaveTrackedWallets(h) ==
    /\ handlers[h].pc = "save"
    /\ trackedWalletsFile' = handlers[h].wallets
    /\ responses' = Append(responses,
                           [kind |-> handlers[h].kind,
                            address |-> ToLowerCase(handlers[h].walletAddress),
                            status |-> 200])
    /\ handlers' = [handlers EXCEPT ![h] = IdleHandler]
    /\ UNCHANGED <<queryVars, otherVars, monitorVars>>

TrackedNext ==
    \/ \E h \in HandlerIds : PostTrackedWallet(h)
    \/ \E h \in HandlerIds : DeleteTrackedWallet(h)
    \/ \E h \in HandlerIds : GetTrackedWallets(h)
    \/ \E h \in HandlerIds : SaveTrackedWallets(h)

SpecTracked == TrackedInit /\ [][TrackedNext]_vars

\* The addresses tracked after the accepted requests rs, applied in the
\* order of their responses.
RECURSIVE AppliedAddresses(_)
AppliedAddresses(rs) ==
    IF rs = <<>> THEN {}
    ELSE LET r == rs[Len(rs)]
             before == AppliedAddresses(SubSeq(rs, 1, Len(rs) - 1))
         IN  CASE r.status = 200 /\ r.kind = "post" -> before \cup {r.address}
               [] r.status = 200 /\ r.kind = "delete" -> before \ {r.address}
               [] OTHER -> before

\* Stored addresses are lowercase and distinct.
TrackedListIsNormalised ==
    /\ \A i \in 1..Len(trackedWalletsFile) :
          trackedWalletsFile[i] = ToLowerCase(trackedWalletsFile[i])
    /\ \A i, j \in 1..Len(trackedWalletsFile) :
          i # j => trackedWalletsFile[i] # trackedWalletsFile[j]

\* C17: every stored tracked address is lowercase, none is stored twice, and
\* the stored list holds exactly the addresses left by the accepted adds and
\* removes (no accepted add or remove is lost).
C17_StoredListMatchesAcceptedRequests ==
    /\ TrackedListIsNormalised
    /\ {trackedWalletsFile[i] : i \in 1..Len(trackedWalletsFile)}
           = AppliedAddresses(responses)

(***************************************************************************)
(* Market metrics: the records returned                                    *)
(***************************************************************************)

\* The markets of the ledger without an answer.
UnresolvedMarketsOf(table) ==
    {r.market_address : r \in {x \in RowsOf(table) : ~IsResolved(x)}}

\* The outcome tokens of a market that have a ledger row.
TokensOfMarket(table, market) ==
    {r.token_id : r \in {x \in RowsOf(table) : x.market_address = market}}

\* The first requests of the liquidity calculations of a market.
LiquidityCalls(market) ==
    {i \in 1..Len(requests) :
        /\ requests[i].loop = "liquidity"
        /\ requests[i].marketAddress = market
        /\ requests[i].offset = 0}

\* C18: getMarketsWithMetrics returns one record for every unresolved market
\* with a ledger row and none for a market with an answer; each market is
\* recorded once, its liquidity is computed once, and each of its outcome
\* tokens appears once in outcome_tokens.
C18_OneRecordPerUnresolvedMarket ==
    (op = "metrics" /\ pc = "done") =>
        LET records == result.value
        IN  /\ {records[k].market_address : k \in 1..Len(records)}
                   = UnresolvedMarketsOf(ledger)
            /\ \A k, l \in 1..Len(records) :
                  k # l => records[k].market_address # records[l].market_address
            /\ \A k \in 1..Len(records) :
                  LET tokens == records[k].outcome_tokens
                      market == records[k].market_address
                  IN  /\ Cardinality(LiquidityCalls(market)) = 1
                      /\ {tokens[j].token_id : j \in 1..Len(tokens)}
                             = TokensOfMarket(ledger, market)
                      /\ \A j, l \in 1..Len(tokens) :
                            j # l => tokens[j].token_id # tokens[l].token_id

\* The metrics are returned for a ledger with a resolved market and an
\* unresolved market with two outcome tokens.
C18_Witness ==
    /\ op = "metrics" /\ pc = "done"
    /\ result.status = "resolved"
    /\ \E r \in RowsOf(ledger) : IsResolved(r)
    /\ \E k \in 1..Len(result.value) : Len(result.value[k].outcome_tokens) = 2

(***************************************************************************)
(* One page request at a time                                              *)
(***************************************************************************)

\* The rows of the pages answered so far.
RECURSIVE RowsAnswered(_)
RowsAnswered(rs) ==
    IF rs = <<>> THEN 0
    ELSE (IF Head(rs).rows = Failed THEN 0 ELSE Head(rs).rows)
             + RowsAnswered(Tail(rs))

\* C19: at most one page request is outstanding, and the request for a
\* loop's next page is outstanding only when every earlier page of the loop
\* has been answered and all the rows answered have been folded.
C19_PagesAreRequestedOneAtATime ==
    /\ Len(outstanding) <= 1
    /\ \A k \in 1..Len(outstanding) :
          LET r == outstanding[k]
              earlier == RequestsOf(r.loop)
          IN  op # "metrics" =>
                  /\ r.offset = Cardinality(earlier) * pageSize
                  /\ \A i \in earlier : requests[i].rows # Failed
                  /\ nfold = RowsAnswered(requests)

\* The second page of a leaderboard's ledger loop is being awaited.
C19_Witness ==
    /\ op \in {"ot", "portfolio"}
    /\ Len(outstanding) = 1
    /\ outstanding[1].loop = "positions"
    /\ outstanding[1].offset > 0
    /\ nfold > 0

(***************************************************************************)
(* Cash balance batches                                                    *)
(***************************************************************************)

\* The reads made for address u.
ReadsOf(u) == {i \in 1..Len(cashReads) : cashReads[i].address = u}

\* What the read adds to the entry of its address.
BalanceOfRead(read) ==
    IF read.status = "success" THEN FormatUnits(read.result, USDC_DECIMALS)
    ELSE Num(0)

MaxRerunRows == 2

\* A report that goes on with the leaderboard of the call before.
KeptAcc(o, previous) == previous

\* `const leaderboard = { userToStats: new Map(), ... }`, `let portfolio = 0`,
\* `const claims = {}`: every call builds its result from nothing.
FreshAcc(o, previous) == EmptyAcc(o)

RerunInit ==
    /\ Init
    /\ Len(ledger) + Len(market_claim) <= MaxRerunRows

\* The operation has returned and is called again with the same arguments on
\* the same tables.
CallAgain ==
    /\ run = 1 /\ pc = "done"
    /\ run' = 2
    /\ firstRun' = [result |-> result, cashReads |-> cashReads]
    /\ pc' = CASE op \in ClaimOps -> "claims"
               [] op = "metrics" -> "markets"
               [] OTHER -> "positions"
    /\ offset' = 0
    /\ claims' = EmptyMap
    /\ acc' = FreshAcc(op, acc)
    /\ lastPage' = <<>>
    /\ prevAcc' = EmptyAcc(op)
    /\ seenPrev' = {}
    /\ dup' = FALSE
    /\ claimBag' = EmptyMap
    /\ foldedIds' = <<>>
    /\ requests' = <<>>
    /\ nfold' = 0
    /\ cashReads' = <<>>
    /\ result' = Pending
    /\ outstanding' = NextIssue(pc', offset', acc', pageSize)
    /\ UNCHANGED <<serverVars, argVars, dbVars>>

RerunNext == Next \/ CallAgain

SpecRerun == RerunInit /\ [][RerunNext]_vars

C22_CheckNeverRejects ==
    \A i \in 1..Len(outcomes) :
        /\ outcomes[i].status = "resolved"
        /\ outcomes[i].run = "http" => outcomes[i].response = 200

\* A failed check of the timer and a failed check of the route have settled.
C22_Witness ==
    \E i, j \in 1..Len(outcomes) :
        /\ outcomes[i].failed /\ outcomes[i].run = "timer"
        /\ outcomes[j].failed /\ outcomes[j].run = "http"

(***************************************************************************)
(* The known-markets file and the notification                             *)
(***************************************************************************)

\* The markets the next check would find new: the filter applied to the
\* current markets and the stored list.
StillNew == NewMarketsOf(getAllMarkets(indexed), loadKnownMarkets(knownMarketsFile))

\* C25: with a webhook configured, a run that found new markets writes the
\* known-markets file only after its notification was delivered; a failed
\* notification leaves the file as it is, and the markets of that run which
\* the file does not hold are still new for the next check.
C25_FileWrittenOnlyAfterNotification ==
    [][\A r \in Runs :
          /\ ( /\ checks[r].pc = "save"
               /\ Len(checks[r].newMarkets) > 0
               /\ env.SLACK_WEBHOOK_URL # Unset
               /\ checks'[r].pc = "idle"
               /\ ~outcomes'[Len(outcomes')].failed )
             => checks[r].notified
          /\ ( /\ checks[r].pc = "notify"
               /\ env.SLACK_WEBHOOK_URL # Unset
               /\ checks'[r] # checks[r]
               /\ ~checks'[r].notified )
             => /\ knownMarketsFile' = knownMarketsFile
                /\ checks'[r].pc = "idle"
                /\ \A k \in 1..Len(checks[r].newMarkets) :
                       ~Includes(loadKnownMarkets(knownMarketsFile), checks[r].newMarkets[k])
                       => Includes(StillNew', checks[r].newMarkets[k])
    ]_vars

\* A notification failed, the file was left without the new market, and a
\* later run has written the file after delivering its notification.
C25_Witness ==
    /\ \E i \in 1..Len(outcomes) : outcomes[i].failed
    /\ Len(notifications) > 0
    /\ knownMarketsFile # Missing
    /\ Len(knownMarketsFile) > 0
    /\ env.SLACK_WEBHOOK_URL = SlackUrl

(***************************************************************************)
(* Starting and stopping the monitors                                      *)
(***************************************************************************)

\* The most entries of the call history followed.
MaxCalls == 6

\* A start function without its guard.
NeverRunning(m) == FALSE

\* if (intervalId)
AlreadyRunning(m) == intervalId[m] # NoTimer

\* The timers of monitor m that have not been cleared.
ActiveTimers(m) ==
    {i \in 1..Len(timers) : timers[i].monitor = m /\ timers[i].active}

TimersInit ==
    /\ QueryIdle
    /\ ServerIdle

\* startMarketMonitoring / startWalletMonitoring: return when a timer is
\* set; otherwise call the check at once and set the interval timer.
StartMonitoring(m) ==
    /\ Len(invocations) + 2 <= MaxCalls
    /\ IF AlreadyRunning(m)
       THEN /\ invocations' = Append(invocations, [monitor |-> m, call |-> "start"])
            /\ UNCHANGED <<intervalId, timers>>
       ELSE /\ invocations' = invocations \o <<[monitor |-> m, call |-> "start"],
                                               [monitor |-> m, call |-> "check"]>>
            /\ timers' = Append(timers, [monitor |-> m, active |-> TRUE])
            /\ intervalId' = [intervalId EXCEPT ![m] = Len(timers')]
    /\ UNCHANGED <<queryVars, monitorVars, trackedVars, env, keyVars, walletVars>>

\* stopMarketMonitoring / stopWalletMonitoring: clear the timer of
\* intervalId, if any, and set intervalId to null.
StopMonitoring(m) ==
    /\ Len(invocations) < MaxCalls
    /\ invocations' = Append(invocations, [monitor |-> m, call |-> "stop"])
    /\ IF intervalId[m] # NoTimer
       THEN /\ timers' = [timers EXCEPT ![intervalId[m]].active = FALSE]
            /\ intervalId' = [intervalId EXCEPT ![m] = NoTimer]
       ELSE UNCHANGED <<intervalId, timers>>
    /\ UNCHANGED <<queryVars, monitorVars, trackedVars, env, keyVars, walletVars>>

\* An active timer fires: its callback calls the check.
TimerFires(i) ==
    /\ Len(invocations) < MaxCalls
    /\ timers[i].active
    /\ invocations' = Append(invocations, [monitor |-> timers[i].monitor, call |-> "check"])
    /\ UNCHANGED <<queryVars, monitorVars, trackedVars, env, keyVars, walletVars, intervalId, timers>>

TimersNext ==
    \/ \E m \in Monitors : StartMonitoring(m)
    \/ \E m \in Monitors : StopMonitoring(m)
    \/ \E i \in 1..Len(timers) : TimerFires(i)

SpecTimers == TimersInit /\ [][TimersNext]_vars

\* The call that the step adds to the history, as <<monitor, call>>.
CallOfStep(m, call) ==
    /\ Len(invocations') > Len(invocations)
    /\ invocations'[Len(invocations) + 1] = [monitor |-> m, call |-> call]

\* C26: each monitor has at most one active interval timer, the one of its
\* intervalId; a start while running creates no timer and calls no check, a
\* stop while stopped changes nothing, and a start while stopped creates
\* exactly one timer and calls the check once.
C26_AtMostOneTimerPerMonitor ==
    [][\A m \in Monitors :
          /\ Cardinality(ActiveTimers(m)') <= 1
          /\ ActiveTimers(m)' = IF intervalId'[m] = NoTimer THEN {} ELSE {intervalId'[m]}
          /\ (CallOfStep(m, "start") /\ ActiveTimers(m) # {})
             => /\ timers' = timers
                /\ intervalId' = intervalId
                /\ Len(invocations') = Len(invocations) + 1
          /\ (CallOfStep(m, "stop") /\ ActiveTimers(m) = {})
             => /\ timers' = timers
                /\ intervalId' = intervalId
          /\ (CallOfStep(m, "start") /\ ActiveTimers(m) = {})
             => /\ Len(timers') = Len(timers) + 1
                /\ ActiveTimers(m)' = {Len(timers')}
                /\ invocations' = invocations \o <<[monitor |-> m, call |-> "start"],
                                                   [monitor |-> m, call |-> "check"]>>
    ]_vars

\* A monitor was started, started again while running, stopped, and started
\* once more: its first timer is cleared and its second is active.
C26_Witness ==
    \E m \in Monitors :
        /\ \E i, j \in 1..Len(timers) :
               /\ i < j
               /\ timers[i] = [monitor |-> m, active |-> FALSE]
               /\ timers[j] = [monitor |-> m, active |-> TRUE]
        /\ \E k \in 1..(Len(invocations) - 1) :
               /\ invocations[k] = [monitor |-> m, call |-> "start"]
               /\ invocations[k + 1].call # "check"

(***************************************************************************)
(* The wallet check and its cron handler                                   *)
(***************************************************************************)

\* The most calls (timer callbacks, cron requests, resetFirstRun) followed.
MaxWalletCalls == 4

\* The most cron requests followed when the requests vary.
MaxCronRequests == 2

\* `Bearer ${secret}`; an unset variable is interpolated as "undefined".
Bearer(secret) ==
    <<"B", "e", "a", "r", "e", "r", " ">> \o (IF secret = Unset THEN <<"u">> ELSE secret)

\* The values of CRON_SECRET: unset, the empty string, a secret.
CronSecrets == {Unset, <<>>, Secret}

\* The x-vercel-cron headers and the Authorization headers a request carries.
CronHeaders == {Unset, <<"1">>, <<"0">>}

AuthorizationHeaders == {Unset, Bearer(Secret), Bearer(<<"x">>), Secret, Bearer(<<>>)}

\* A value as a condition: undefined and the empty string are false.
Truthy(value) == value # Unset /\ value # <<>>

\* A handler that compares the Authorization header with the bare secret.
UnauthorizedBareSecret(request) ==
    /\ Truthy(env.CRON_SECRET)
    /\ ~(request.cron = <<"1">>)
    /\ request.authorization # env.CRON_SECRET

\* The condition of the 401 answer:
\* process.env.CRON_SECRET && !isCronRequest && authHeader !== `Bearer ${...}`
Unauthorized(request) ==
    /\ Truthy(env.CRON_SECRET)
    /\ ~(request.cron = <<"1">>)
    /\ request.authorization # Bearer(env.CRON_SECRET)

\* An entry of the wallet history.
WalletEvent(event, c) == [event |-> event, caller |-> c]

\* An entry of the cron history: what was done for which request.
CronEvent(event, request) == [event |-> event, request |-> request]

\* The cron history grows by these events when the check is the handler's.
CronLogged(c, events) ==
    IF c = "cron"
    THEN cronLog' = cronLog \o [i \in 1..Len(events) |->
                                   CronEvent(events[i], walletChecks[c].request)]
    ELSE UNCHANGED cronLog

\* The calls made so far: checks of the timer, cron requests, resets.
WalletCalls ==
    Cardinality({i \in 1..Len(walletLog) :
                    \/ walletLog[i].event = "reset"
                    \/ walletLog[i].caller = "timer"
                       /\ walletLog[i].event \in {"first", "later"}})
    + Cardinality({i \in 1..Len(cronLog) : cronLog[i].event = "request"})

WalletInit ==
    /\ QueryIdle
    /\ MonitorIdle
    /\ TrackedIdle
    /\ TimersIdle
    /\ WalletIdle
    /\ KeysIdle
    /\ env \in [SLACK_WEBHOOK_URL : {Unset, SlackUrl}, CRON_SECRET : {Unset}]

\* The cron handler with any CRON_SECRET.
CronInit ==
    /\ QueryIdle
    /\ MonitorIdle
    /\ TrackedIdle
    /\ TimersIdle
    /\ WalletIdle
    /\ KeysIdle
    /\ env \in [SLACK_WEBHOOK_URL : {Unset, SlackUrl}, CRON_SECRET : CronSecrets]

\* A check that leaves the flag set while it imports slack-test.
BeginCheckKeepingFlag(c) ==
    /\ UNCHANGED isFirstRun
    /\ walletChecks' = [walletChecks EXCEPT ![c].pc = IF isFirstRun THEN "import" ELSE "fetch"]
    /\ walletLog' = Append(walletLog, WalletEvent(IF isFirstRun THEN "first" ELSE "later", c))
    /\ CronLogged(c, <<"check">>)

\* The synchronous start of checkWalletAndSendReport: on the first run the
\* flag is cleared and slack-test is imported; otherwise the wallet data is
\* requested.
BeginCheck(c) ==
    /\ isFirstRun' = FALSE
    /\ walletChecks' = [walletChecks EXCEPT ![c].pc = IF isFirstRun THEN "import" ELSE "fetch"]
    /\ walletLog' = Append(walletLog, WalletEvent(IF isFirstRun THEN "first" ELSE "later", c))
    /\ CronLogged(c, <<"check">>)

\* The promise of checkWalletAndSendReport settles; the cron handler answers
\* 200 after a resolved check and 500 after a rejected one.
SettleCheck(c, status) ==
    /\ walletChecks' = [walletChecks EXCEPT ![c] = IdleWalletCheck]
    /\ CronLogged(c, <<IF status = "resolved" THEN "200" ELSE "500">>)

\* The interval timer (or startWalletMonitoring) calls the check.
TimerCallsCheck ==
    /\ walletChecks["timer"].pc = "idle"
    /\ WalletCalls < MaxWalletCalls
    /\ BeginCheck("timer")
    /\ UNCHANGED <<queryVars, monitorVars, trackedVars, env, keyVars, timerVars>>

\* The cron handler receives a request, answers 401 or imports
\* wallet-monitor.
CronRequest(request) ==
    /\ walletChecks["cron"].pc = "idle"
    /\ WalletCalls < MaxWalletCalls
    /\ IF Unauthorized(request)
       THEN /\ cronLog' = cronLog \o <<CronEvent("request", request), CronEvent("401", request)>>
            /\ UNCHANGED walletChecks
       ELSE /\ cronLog' = Append(cronLog, CronEvent("request", request))
            /\ walletChecks' = [walletChecks EXCEPT ![("cron")] =
                                   [pc |-> "call", request |-> request]]
    /\ UNCHANGED <<queryVars, monitorVars, trackedVars, env, keyVars, timerVars, isFirstRun,
                   walletLog>>

\* wallet-monitor is imported: the handler calls the check.
CronCallsCheck ==
    /\ walletChecks["cron"].pc = "call"
    /\ BeginCheck("cron")
    /\ UNCHANGED <<queryVars, monitorVars, trackedVars, env, keyVars, timerVars>>

\* slack-test is imported: sendSlackTestMessage is called.
SendSlackTestMessage(c) ==
    /\ walletChecks[c].pc = "import"
    /\ walletChecks' = [walletChecks EXCEPT ![c].pc = "test"]
    /\ walletLog' = Append(walletLog, WalletEvent("test", c))
    /\ CronLogged(c, <<"test">>)
    /\ UNCHANGED <<queryVars, monitorVars, trackedVars, env, keyVars, timerVars, isFirstRun>>

\* sendSlackTestMessage throws: the inner catch logs the error and the check
\* goes on to request the wallet data.
TestMessageFailed(c) ==
    /\ walletChecks' = [walletChecks EXCEPT ![c].pc = "fetch"]
    /\ walletLog' = walletLog \o <<WalletEvent("testFailed", c), WalletEvent("fetch", c)>>
    /\ UNCHANGED cronLog

\* The test message is delivered, or it fails.
TestMessageSettles(c) ==
    /\ walletChecks[c].pc = "test"
    /\ \/ /\ walletChecks' = [walletChecks EXCEPT ![c].pc = "fetch"]
          /\ UNCHANGED <<walletLog, cronLog>>
       \/ /\ env.SLACK_WEBHOOK_URL # Unset
          /\ TestMessageFailed(c)
    /\ UNCHANGED <<queryVars, monitorVars, trackedVars, env, keyVars, timerVars, isFirstRun>>

\* Promise.all of getWalletPortfolio and getWalletPositions settles: with
\* the data the report is sent when SLACK_WEBHOOK_URL is set, and the check
\* resolves without it; an error is thrown on.
WalletDataSettles(c) ==
    /\ walletChecks[c].pc = "fetch"
    /\ \/ /\ env.SLACK_WEBHOOK_URL # Unset
          /\ walletChecks' = [walletChecks EXCEPT ![c].pc = "report"]
          /\ CronLogged(c, <<"report">>)
       \/ /\ env.SLACK_WEBHOOK_URL = Unset
          /\ SettleCheck(c, "resolved")
       \/ SettleCheck(c, "rejected")
    /\ UNCHANGED <<queryVars, monitorVars, trackedVars, env, keyVars, timerVars, isFirstRun,
                   walletLog>>

\* sendWalletReportToSlack settles: an error is thrown on.
WalletReportSettles(c) ==
    /\ walletChecks[c].pc = "report"
    /\ \/ SettleCheck(c, "resolved")
       \/ SettleCheck(c, "rejected")
    /\ UNCHANGED <<queryVars, monitorVars, trackedVars, env, keyVars, timerVars, isFirstRun,
                   walletLog>>

\* resetFirstRun()
ResetFirstRun ==
    /\ WalletCalls < MaxWalletCalls
    /\ isFirstRun' = TRUE
    /\ walletLog' = Append(walletLog, WalletEvent("reset", "timer"))
    /\ UNCHANGED <<queryVars, monitorVars, trackedVars, env, keyVars, timerVars, walletChecks,
                   cronLog>>

\* The requests of the cron handler alone, with every combination of headers.
CronNext ==
    \/ \E request \in [cron : CronHeaders, authorization : AuthorizationHeaders] :
           /\ WalletCalls < MaxCronRequests
           /\ CronRequest(request)
    \/ CronCallsCheck
    \/ SendSlackTestMessage("cron")
    \/ TestMessageSettles("cron")
    \/ WalletDataSettles("cron")
    \/ WalletReportSettles("cron")

SpecCron == CronInit /\ [][CronNext]_vars

\* The timer, the cron job and resetFirstRun.
WalletNext ==
    \/ TimerCallsCheck
    \/ CronRequest(NoRequest)
    \/ CronCallsCheck
    \/ \E c \in Callers : SendSlackTestMessage(c)
    \/ \E c \in Callers : TestMessageSettles(c)
    \/ \E c \in Callers : WalletDataSettles(c)
    \/ \E c \in Callers : WalletReportSettles(c)
    \/ ResetFirstRun

SpecWallet == WalletInit /\ [][WalletNext]_vars

\* CRON_SECRET counts as unset when the variable is missing or empty: the
\* handler tests its value as a condition.
SecretIsUnset == env.CRON_SECRET \in {Unset, <<>>}

\* The requests the handler is to serve.
Allowed(request) ==
    \/ SecretIsUnset
    \/ request.cron = <<"1">>
    \/ request.authorization = <<"B", "e", "a", "r", "e", "r", " ">> \o env.CRON_SECRET

\* C23: the cron handler calls checkWalletAndSendReport only for a request
\* that CRON_SECRET being unset, the header x-vercel-cron: 1 or the header
\* Authorization: Bearer <CRON_SECRET> allows; every other request is answered
\* 401 at once, and no check, test message or report is made for it.
C23_CronHandlerRunsOnlyWhenAllowed ==
    \A i \in 1..Len(cronLog) :
        LET entry == cronLog[i]
        IN  /\ entry.event \in {"check", "test", "report", "200", "500"}
               => Allowed(entry.request)
            /\ (entry.event = "request" /\ ~Allowed(entry.request))
               => /\ i < Len(cronLog)
                  /\ cronLog[i + 1] = CronEvent("401", entry.request)

\* With a secret set, a request with the bare secret was answered 401 and a
\* request with the Bearer header had its report sent.
C23_Witness ==
    /\ env.CRON_SECRET = Secret
    /\ \E i, j \in 1..Len(cronLog) :
           /\ cronLog[i].event = "401"
           /\ cronLog[i].request.authorization = Secret
           /\ cronLog[j].event = "report"
           /\ cronLog[j].request.cron # <<"1">>

\* The entries of the wallet history with this event.
EventsOf(event) == {i \in 1..Len(walletLog) : walletLog[i].event = event}

\* A failed test message is followed at once by the request for the wallet
\* data of the same check.
FailedTestMessageDoesNotStopCheck ==
    \A i \in EventsOf("testFailed") :
        /\ i < Len(walletLog)
        /\ walletLog[i + 1] = WalletEvent("fetch", walletLog[i].caller)

\* C29 as stated: between two resetFirstRun calls sendSlackTestMessage is
\* invoked at most once, and a failed test message does not stop the check.
C29_OneTestMessageBetweenResets ==
    /\ \A i, j \in EventsOf("test") :
           i < j => \E k \in EventsOf("reset") : i < k /\ k < j
    /\ FailedTestMessageDoesNotStopCheck

\* C29, amended: between two resetFirstRun calls at most one call of
\* checkWalletAndSendReport takes the first-run branch, only such a call
\* invokes sendSlackTestMessage, and it does so at most once; a failed test
\* message does not stop the check.
C29_OneFirstRunBetweenResets ==
    /\ \A i, j \in EventsOf("first") :
           i < j => \E k \in EventsOf("reset") : i < k /\ k < j
    /\ \A j \in EventsOf("test") :
           /\ \E i \in EventsOf("first") : i < j /\ walletLog[i].caller = walletLog[j].caller
           /\ Cardinality({k \in EventsOf("test") :
                              k <= j /\ walletLog[k].caller = walletLog[j].caller})
              <= Cardinality({i \in EventsOf("first") :
                                 i < j /\ walletLog[i].caller = walletLog[j].caller})
    /\ FailedTestMessageDoesNotStopCheck

\* Two checks overlapped: the second began, not as a first run, before the
\* first had called sendSlackTestMessage, and that test message failed.
C29_Witness ==
    /\ Cardinality(EventsOf("test")) = 1
    /\ \E i \in EventsOf("first"), j \in EventsOf("later"), k \in EventsOf("test"),
          l \in EventsOf("testFailed") :
           /\ i < j /\ j < k /\ k < l
           /\ walletLog[j].caller # walletLog[i].caller
           /\ walletLog[k].caller = walletLog[i].caller
           /\ walletLog[l].caller = walletLog[i].caller

(***************************************************************************)
(* The claim keys                                                          *)
(***************************************************************************)

\* The longest identifier given to buildClaimKey.
MaxKeyLen == 1

\* The characters of the identifiers: a hex digit and the separator.
KeyChars == {"a", "-"}

Identifiers == UNION {[1..n -> KeyChars] : n \in 0..MaxKeyLen}

Triples == [user : Identifiers, market : Identifiers, token : Identifiers]

KeysInit ==
    /\ QueryIdle
    /\ MonitorIdle
    /\ TrackedIdle
    /\ TimersIdle
    /\ WalletIdle
    /\ env = [SLACK_WEBHOOK_URL |-> SlackUrl, CRON_SECRET |-> Unset]
    /\ triples \in Triples \X Triples
    /\ keyed = NoKeys

KeyOf(triple) == buildClaimKey(triple.user, triple.market, triple.token)

\* The keys of the two triples, and processClaims over a claim of 1 for the
\* first and of 2 for the second.
BuildClaimKeys ==
    /\ ~keyed.built
    /\ keyed' = [built |-> TRUE,
                 keys |-> <<KeyOf(triples[1]), KeyOf(triples[2])>>,
                 claims |-> processClaims(EmptyMap,
                     <<ClaimEntry(triples[1].user, triples[1].market, triples[1].token, <<"1">>),
                       ClaimEntry(triples[2].user, triples[2].market, triples[2].token, <<"2">>)>>)]
    /\ UNCHANGED <<queryVars, monitorVars, trackedVars, env, timerVars, walletVars, triples>>

KeysNext == BuildClaimKeys

SpecKeys == KeysInit /\ [][KeysNext]_vars

HyphenFree(triple) ==
    \A part \in {triple.user, triple.market, triple.token} :
        \A i \in 1..Len(part) : part[i] # "-"

\* C24: two different triples without a hyphen in any component get different
\* keys, so the claim of each is stored under its own key and is what a
\* lookup of that key returns.
C24_ClaimKeyIsInjective ==
    (/\ keyed.built
     /\ HyphenFree(triples[1])
     /\ HyphenFree(triples[2])
     /\ triples[1] # triples[2])
    => /\ keyed.keys[1] # keyed.keys[2]
       /\ GetOr(keyed.claims, keyed.keys[1], 0) = 1
       /\ GetOr(keyed.claims, keyed.keys[2], 0) = 2

\* Keys were built for two hyphen-free triples with the same characters in
\* different components.
C24_Witness ==
    /\ keyed.built
    /\ triples[1] = [user |-> <<>>, market |-> <<"a">>, token |-> <<"a">>]
    /\ triples[2] = [user |-> <<"a">>, market |-> <<>>, token |-> <<"a">>]
    /\ keyed.keys = << <<"-", "a", "-", "a">>, <<"a", "-", "-", "a">> >>

(***************************************************************************)
(* Claims before positions                                                 *)
(***************************************************************************)

\* The ledger loop has been entered: a ledger page was asked for or folded.
LedgerLoopEntered ==
    \/ pc \in {"positions", "cash", "done"}
    \/ foldedIds # <<>>
    \/ RequestsOf("positions") # {}

\* C27: in buildPortfolioLeaderboard and getWalletPortfolio the ledger loop
\* is entered only with every claim row of the source fetched and added, so
\* the claims map the positions are valued against holds the complete total
\* of every key.
C27_ClaimsCompleteBeforePositions ==
    (op \in ClaimOps /\ LedgerLoopEntered)
    => /\ claimBag = BagAddAll(EmptyMap, ClaimsSource)
       /\ claims = processClaims(EmptyMap, ClaimsSource)

\* Ledger rows were valued after a claims loop of two pages with rows.
C27_Witness ==
    /\ op \in ClaimOps
    /\ foldedIds # <<>>
    /\ \E i, j \in RequestsOf("claims") :
           i < j /\ requests[i].rows > 0 /\ requests[j].rows > 0
    /\ \E key \in DOMAIN claims : claims[key] > 1

(***************************************************************************)
(* The leaderboard and the wallet portfolio                                *)
(***************************************************************************)

\* buildPortfolioLeaderboard has returned; getWalletPortfolio is called for
\* the address of a user on the same tables.
CallWallet ==
    /\ run = 1 /\ pc = "done" /\ op = "portfolio"
    /\ run' = 2
    /\ firstRun' = [result |-> result, cashReads |-> cashReads]
    /\ op' = "walletPortfolio"
    /\ walletAddress' \in Users
    /\ pageSize' = WalletPageSize
    /\ pc' = "claims"
    /\ offset' = 0
    /\ claims' = EmptyMap
    /\ acc' = EmptyAcc("walletPortfolio")
    /\ lastPage' = <<>>
    /\ prevAcc' = EmptyAcc("walletPortfolio")
    /\ seenPrev' = {}
    /\ dup' = FALSE
    /\ claimBag' = EmptyMap
    /\ foldedIds' = <<>>
    /\ requests' = <<>>
    /\ nfold' = 0
    /\ cashReads' = <<>>
    /\ result' = Pending
    /\ outstanding' = NextIssue(pc', offset', acc', pageSize')
    /\ UNCHANGED <<serverVars, marketAddress, dbVars>>

CompareNext == Next \/ CallWallet

SpecCompare == Init /\ [][CompareNext]_vars

\* The leaderboard of the first call.
StoredLeaderboard == firstRun.result.value.userToStats

\* The balance read of the wallet call gave what the leaderboard's read of
\* the same address gave.
SameBalanceResult ==
    \A i \in 1..Len(firstRun.cashReads), j \in 1..Len(cashReads) :
        firstRun.cashReads[i].address = cashReads[j].address
        => /\ firstRun.cashReads[i].status = cashReads[j].status
           /\ firstRun.cashReads[i].result = cashReads[j].result

\* C28: on the same ledger, claims and balance results the value stored in
\* the leaderboard for a user is the value getWalletPortfolio returns for the
\* user's address, and the leaderboard holds an entry for every user with a
\* ledger position.
C28_LeaderboardAgreesWithWallet ==
    /\ (op = "portfolio" /\ pc = "done")
       => \A i \in 1..Len(ledger) : ledger[i].user_address \in DOMAIN acc.userToStats
    /\ (run = 2 /\ pc = "done" /\ SameBalanceResult)
       => /\ walletAddress \in DOMAIN StoredLeaderboard
             => result.value.portfolio = StoredLeaderboard[walletAddress]
          /\ walletAddress \notin DOMAIN StoredLeaderboard
             => /\ \A i \in 1..Len(ledger) : ledger[i].user_address # walletAddress
                /\ result.value.portfolio = BalanceOfRead(cashReads[1])

\* The two calls agree on a user whose value comes from a position, a claim
\* and a balance, and the leaderboard holds another user with the value 0.
C28_Witness ==
    /\ run = 2 /\ pc = "done" /\ SameBalanceResult
    /\ walletAddress \in DOMAIN StoredLeaderboard
    /\ result.value.portfolio = StoredLeaderboard[walletAddress]
    /\ result.value.portfolio # Num(0)
    /\ market_claim # <<>>
    /\ cashReads[1].status = "success" /\ cashReads[1].result > 0
    /\ \E u \in DOMAIN StoredLeaderboard : StoredLeaderboard[u] = Num(0)

====
